---- MODULE Spec2Model ----
(***************************************************************************)
(* omni-stream: coordinator transfer orchestration, passcode window,      *)
(* event broker, federated search, ticket verification and the agent's    *)
(* chunked inbox, modelled from the Python sources.                       *)
(*                                                                         *)
(* Each subsystem has its own variables and its own specification; a      *)
(* specification leaves the variables of the other subsystems unchanged.  *)
(***************************************************************************)
EXTENDS Integers, Sequences, FiniteSets, TLC

VARIABLES
    \* ---- coordinator database (committed rows) ----
    transfer_state,        \* TransferRequest.state per transfer id, NoRow if no row
    sender_principal_id,   \* TransferRequest.sender_principal_id
    item_state,            \* TransferItem.state, a sequence of item states per transfer
    passcode_window,       \* PasscodeWindow row per transfer, NoWindow if none
    now,                   \* the coordinator's clock (_utcnow), in seconds
    response,              \* the last HTTP response and the events it published
    wrong_streak,          \* history: consecutive 401 "Invalid passcode" answers per transfer
    after_update,          \* history: the transfer's rows are as update_item_state committed them
    \* ---- one coordinator request handled step by step ----
    handler,               \* the request in flight: its session, its position, or Idle
    commit_log,            \* history: the db.commit() calls of mutating handlers
    published,             \* history: the calls of broker.publish
    served,                \* the number of requests begun
    \* ---- agent inbox ----
    manifest,              \* what the coordinator answers to fetch_transfer_item_manifest
    share_read_only,       \* LocalShare.read_only of the receiving share
    share_dir,             \* the names taken in the destination directory; record.inbox_path in it
    inbox_items,           \* committed InboxTransferItem rows, by id
    part_path,             \* the file at record.part_path
    inbox_path,            \* the file at record.inbox_path
    uploads,               \* the upload_chunk requests: position, session, outcome
    inbox_response,        \* the last answer of commit, pause, resume or finalize
    \* ---- agent: read tickets ----
    agent_now,             \* the agent's clock (time.time()), in seconds
    ticket,                \* the ticket presented on a read endpoint
    verdict,               \* what verify_read_ticket answered, and for which call
    \* ---- coordinator: event broker ----
    connections,           \* EventBroker._connections[principal], in iteration order
    principal_entry,       \* whether _connections has an entry for the principal
    socket_state,          \* per websocket: "new", "open", or "closed" by its client
    calls,                 \* the publish calls: event, sockets left to send to, stale list
    outbox,                \* per socket, the calls suspended in send_json, oldest first
    delivered,             \* per socket, the events the client has received
    publish_order,         \* history: the events in the order publish was called
    \* ---- coordinator: federated search ----
    search,                \* the search request in flight: futures, results, flags
    search_response,       \* the last search response
    \* ---- coordinator: access control and browsing ----
    acl_grants,            \* the AclGrant row of each (principal, share), NoGrant if none
    device,                \* AgentDevice.visibility and liveness, by share
    acl_response,          \* the last answer of a permission lookup or of list
    \* ---- histories kept for single properties ----
    chunk_log,             \* the chunks the agent has accepted; is the last request a resend
    lockouts,              \* the failed verifications of a window since it was last reset
    expires_at,            \* TransferRequest.expires_at per transfer, None if no row
    last_notification,     \* the item state notification the last request applied, if it was one
    \* ---- coordinator: pairing ----
    pairing_session,       \* PairingSession.status of the one pending pairing
    pairing_attempts,      \* _PAIRING_ATTEMPTS[session.id], NoAttempts if absent
    pairing_response,      \* the last answer of confirm_pairing, with what it found
    principal_rows,        \* the number of committed Principal rows
    starts                 \* the start_pairing requests: position, what they read, answer

coordVars == <<transfer_state, sender_principal_id, item_state, passcode_window,
               now, response, wrong_streak, after_update>>
stepVars == <<handler, commit_log, published, served>>

inboxVars == <<manifest, share_read_only, share_dir, inbox_items, part_path, inbox_path, uploads,
               inbox_response>>

\* What the coordinator's specifications leave alone.
ticketVars == <<agent_now, ticket, verdict>>
brokerVars == <<connections, principal_entry, socket_state, calls, outbox, delivered,
               publish_order>>
searchVars == <<search, search_response>>
aclVars == <<acl_grants, device, acl_response>>
historyVars == <<chunk_log, lockouts, expires_at, last_notification>>
pairingVars == <<pairing_session, pairing_attempts, pairing_response, principal_rows, starts>>

\* What the coordinator's specifications leave alone.
elsewhere == <<inboxVars, ticketVars, brokerVars, searchVars, aclVars, historyVars,
              pairingVars>>

vars == <<coordVars, stepVars, inboxVars, ticketVars, brokerVars, searchVars, aclVars, historyVars,
         pairingVars>>

-----------------------------------------------------------------------------
(* Bounds of the model *)

NumTransfers == 2
NumItems == 2
MaxNow == 40
MaxRequests == 3
MaxSize == 2
MaxClock == 2
NumSockets == 2
NumPublishes == 2
NumShares == 2
MaxAgentItems == 3
MaxPerShare == 2
MaxTotal == 3
NumUploads == 2
NumStarts == 2
MaxPairingClock == 640
DigestSpace == 2
\* AGENT_UPLOAD_CHUNK_MAX_BYTES, scaled down
upload_chunk_max_bytes == 2

(* Program constants *)

PASSCODE_ATTEMPTS == 5
_MAX_PAIRING_ATTEMPTS == 5
pairing_code_ttl_seconds == 600
PASSCODE_WINDOW_SECONDS == 300
MAX_LOCK_SECONDS == 300
MAX_LOCK_EXPONENT == 8
\* the digest "0" * 64
UNKNOWN_SHA256 == 0

-----------------------------------------------------------------------------
(* Coordinator: data *)

TransferIds == 1..NumTransfers
NoRow == "no_row"
NoWindow == [exists |-> FALSE]
NoGrant == [exists |-> FALSE]
None == -1
Idle == [pc |-> "idle"]

Principals == {"alice", "bob"}
\* The one agent device and its share are owned by bob (AgentDevice.owner_principal_id).
ReceiverOwner == "bob"

OWNER_PERMISSIONS == {"read", "download", "request_send", "accept_incoming", "manage_share"}
DEFAULT_EXTERNAL_PERMISSIONS == {"read", "download", "request_send"}

TERMINAL_TRANSFER_STATES == {"completed", "rejected", "expired", "failed", "cancelled"}

\* Item states the agent reports (inbox.py notify_transfer_item_state calls).
ReportedItemStates == {"receiving", "staged", "committed", "finalized", "paused"}

\* Passcodes are digit strings; modelled as sequences of digits.
RightPasscode == <<4, 2, 4, 2>>
WrongPasscode == <<0, 0, 0, 0>>
Passcodes == {RightPasscode, WrongPasscode}

\* The fields of the approve request body.
TransferApproveRequest == {"passcode"}

-----------------------------------------------------------------------------
(* Coordinator: helpers *)

\* argon2 PasswordHasher: verify(hash(p), q) succeeds exactly when p = q.
Argon2Hash(passcode) == <<"argon2id", passcode>>
Argon2Verify(hash, passcode) == hash = Argon2Hash(passcode)

Pow2(n) == IF n = 0 THEN 1 ELSE IF n = 1 THEN 2 ELSE IF n = 2 THEN 4
           ELSE IF n = 3 THEN 8 ELSE IF n = 4 THEN 16 ELSE IF n = 5 THEN 32
           ELSE IF n = 6 THEN 64 ELSE IF n = 7 THEN 128 ELSE 256

Min(a, b) == IF a <= b THEN a ELSE b
Max(a, b) == IF a >= b THEN a ELSE b

\* get_permissions_for_share on the receiving share, with the default grants of
\* the other principals in place.
ReceiverSharePermissions(principal) ==
    IF principal = ReceiverOwner THEN OWNER_PERMISSIONS
    ELSE DEFAULT_EXTERNAL_PERMISSIONS

CountIn(states, S) == Cardinality({i \in DOMAIN states : states[i] \in S})

-----------------------------------------------------------------------------
(* Coordinator: what a handler leaves in its session *)

\* status: the HTTP status; committed: db.commit() was reached; ts, its, pw: the
\* session's view of the rows when the handler ends; events: what it publishes.
Outcome(status, committed, ts, its, pw, events) ==
    [status |-> status, committed |-> committed, ts |-> ts, its |-> its,
     pw |-> pw, events |-> events]

Raise(status) == Outcome(status, FALSE, transfer_state, item_state, passcode_window, {})

Event(principal, type, t, state) ==
    [principal |-> principal, type |-> type, transfer_id |-> t, transfer_state |-> state]

\* sessionmaker(autoflush=False): a query does not flush the session's pending changes.
SessionAutoflush == FALSE

set_transfer_passcode(passcode) ==
    [exists |-> TRUE,
     passcode_hash |-> Argon2Hash(passcode),
     attempts_left |-> PASSCODE_ATTEMPTS,
     failure_count |-> 0,
     locked_until |-> None,
     expires_at |-> now + PASSCODE_WINDOW_SECONDS,
     opened_at |-> None]

\* verify_passcode_for_transfer, were a lockout to start the count again.
verify_passcode_resetting_count(window, passcode) ==
    IF ~window.exists THEN [status |-> 400, window |-> window]
    ELSE IF window.expires_at < now THEN [status |-> 410, window |-> window]
    ELSE IF window.locked_until # None /\ window.locked_until > now
        THEN [status |-> 429, window |-> window]
    ELSE IF ~Argon2Verify(window.passcode_hash, passcode) THEN
        LET failure_count == window.failure_count + 1
            attempts_left == window.attempts_left - 1
            lock_seconds == Min(MAX_LOCK_SECONDS, Pow2(Min(failure_count, MAX_LOCK_EXPONENT)))
        IN  [status |-> 401,
             window |-> IF attempts_left <= 0
                        THEN [window EXCEPT !.failure_count = 0,
                                            !.attempts_left = PASSCODE_ATTEMPTS,
                                            !.locked_until = now + lock_seconds]
                        ELSE [window EXCEPT !.failure_count = failure_count,
                                            !.attempts_left = attempts_left]]
    ELSE [status |-> 200,
          window |-> [window EXCEPT !.attempts_left = PASSCODE_ATTEMPTS,
                                    !.locked_until = None,
                                    !.opened_at = now]]

\* The window as verify_passcode_for_transfer leaves it in the session, and the status.
verify_passcode_for_transfer(window, passcode) ==
    IF ~window.exists THEN [status |-> 400, window |-> window]
    ELSE IF window.expires_at < now THEN [status |-> 410, window |-> window]
    ELSE IF window.locked_until # None /\ window.locked_until > now
        THEN [status |-> 429, window |-> window]
    ELSE IF ~Argon2Verify(window.passcode_hash, passcode) THEN
        LET failure_count == window.failure_count + 1
            attempts_left == window.attempts_left - 1
            lock_seconds == Min(MAX_LOCK_SECONDS, Pow2(Min(failure_count, MAX_LOCK_EXPONENT)))
        IN  [status |-> 401,
             window |-> IF attempts_left <= 0
                        THEN [window EXCEPT !.failure_count = failure_count,
                                            !.attempts_left = PASSCODE_ATTEMPTS,
                                            !.locked_until = now + lock_seconds]
                        ELSE [window EXCEPT !.failure_count = failure_count,
                                            !.attempts_left = attempts_left]]
    ELSE [status |-> 200,
          window |-> [window EXCEPT !.attempts_left = PASSCODE_ATTEMPTS,
                                    !.locked_until = None,
                                    !.opened_at = now]]

create_transfer(t, principal) ==
    IF "request_send" \notin ReceiverSharePermissions(principal) THEN Raise(403)
    ELSE Outcome(200, TRUE,
                 [transfer_state EXCEPT ![t] = "pending_receiver_approval"],
                 [item_state EXCEPT ![t] = [i \in 1..NumItems |-> "pending"]],
                 passcode_window,
                 {Event(ReceiverOwner, "transfer_requested", t, "pending_receiver_approval")})

approve_transfer(t, principal, passcode) ==
    IF transfer_state[t] = NoRow THEN Raise(404)
    ELSE IF principal # ReceiverOwner
            /\ "accept_incoming" \notin ReceiverSharePermissions(principal) THEN Raise(403)
    ELSE IF transfer_state[t] # "pending_receiver_approval" THEN Raise(409)
    ELSE IF Len(passcode) # 4 \/ \E k \in DOMAIN passcode : passcode[k] \notin 0..9
        THEN Raise(400)
    ELSE LET ts == [transfer_state EXCEPT ![t] = "approved_pending_sender_passcode"]
             pw == [passcode_window EXCEPT ![t] = set_transfer_passcode(passcode)]
         IN  \* body.destination_path: the request model has no such field, the
             \* attribute access raises and the request ends 500 before db.commit().
             IF "destination_path" \notin TransferApproveRequest
             THEN Outcome(500, FALSE, ts, item_state, pw, {})
             ELSE Outcome(200, TRUE, ts, item_state, pw,
                          {Event(sender_principal_id[t], "transfer_approved", t, ts[t])})

reject_transfer(t, principal) ==
    IF transfer_state[t] = NoRow THEN Raise(404)
    ELSE IF principal # ReceiverOwner THEN Raise(403)
    ELSE IF transfer_state[t] # "pending_receiver_approval" THEN Raise(409)
    ELSE Outcome(200, TRUE,
                 [transfer_state EXCEPT ![t] = "rejected"],
                 [item_state EXCEPT ![t] = [i \in DOMAIN item_state[t] |-> "rejected"]],
                 passcode_window,
                 {Event(sender_principal_id[t], "transfer_rejected", t, "rejected")})

\* open_passcode_window, were one window shared by the sender's transfers.
open_passcode_of_every_window(t, principal, passcode) ==
    IF transfer_state[t] = NoRow THEN Raise(404)
    ELSE IF sender_principal_id[t] # principal THEN Raise(403)
    ELSE IF transfer_state[t] \notin {"approved_pending_sender_passcode", "passcode_open"}
        THEN Raise(409)
    ELSE LET v == verify_passcode_for_transfer(passcode_window[t], passcode)
             pw == [u \in TransferIds |->
                        IF passcode_window[u].exists THEN v.window ELSE passcode_window[u]]
         IN  IF v.status # 200
             THEN \* db.flush() then HTTPException: the session is closed uncommitted
                  Outcome(v.status, FALSE, transfer_state, item_state, pw, {})
             ELSE Outcome(200, TRUE,
                          [transfer_state EXCEPT ![t] = "passcode_open"],
                          item_state, pw,
                          {Event(ReceiverOwner, "transfer_passcode_opened", t, "passcode_open")})

open_passcode_window(t, principal, passcode) ==
    IF transfer_state[t] = NoRow THEN Raise(404)
    ELSE IF sender_principal_id[t] # principal THEN Raise(403)
    ELSE IF transfer_state[t] \notin {"approved_pending_sender_passcode", "passcode_open"}
        THEN Raise(409)
    ELSE LET v == verify_passcode_for_transfer(passcode_window[t], passcode)
             pw == [passcode_window EXCEPT ![t] = v.window]
         IN  IF v.status # 200
             THEN \* db.flush() then HTTPException: the session is closed uncommitted
                  Outcome(v.status, FALSE, transfer_state, item_state, pw, {})
             ELSE Outcome(200, TRUE,
                          [transfer_state EXCEPT ![t] = "passcode_open"],
                          item_state, pw,
                          {Event(ReceiverOwner, "transfer_passcode_opened", t, "passcode_open")})

\* The transfer state update_transfer_item_state derives from the counted item states.
DerivedState(counted, current) ==
    LET total_items == Len(counted)
        finalized_count == CountIn(counted, {"finalized", "completed"})
        active_count == CountIn(counted, {"receiving", "staged", "committed"})
    IN  IF total_items > 0 /\ finalized_count = total_items THEN "completed"
        ELSE IF active_count > 0 THEN "in_progress"
        ELSE current

\* update_transfer_item_state without its early return on a terminal transfer.
update_item_state_ignoring_terminal(t, i, state, secret_ok) ==
    IF ~secret_ok THEN Raise(401)
    ELSE IF transfer_state[t] = NoRow THEN Raise(404)
    ELSE IF i \notin DOMAIN item_state[t] THEN Raise(404)
    ELSE LET items == [item_state[t] EXCEPT ![i] = state]
             new_state == DerivedState(item_state[t], transfer_state[t])
         IN  Outcome(200, TRUE,
                     [transfer_state EXCEPT ![t] = new_state],
                     [item_state EXCEPT ![t] = items],
                     passcode_window,
                     {Event(p, "transfer_item_state", t, new_state) :
                         p \in {sender_principal_id[t], ReceiverOwner}})

update_transfer_item_state(t, i, state, secret_ok) ==
    IF ~secret_ok THEN Raise(401)
    ELSE IF transfer_state[t] = NoRow THEN Raise(404)
    ELSE IF transfer_state[t] \in TERMINAL_TRANSFER_STATES THEN Raise(200)
    ELSE IF i \notin DOMAIN item_state[t] THEN Raise(404)
    ELSE LET items == [item_state[t] EXCEPT ![i] = state]
             \* select state, count(*) ... group by state: reads the rows of the
             \* database; item.state = body.state is pending in the session.
             counted == IF SessionAutoflush THEN items ELSE item_state[t]
             new_state == DerivedState(counted, transfer_state[t])
         IN  Outcome(200, TRUE,
                     [transfer_state EXCEPT ![t] = new_state],
                     [item_state EXCEPT ![t] = items],
                     passcode_window,
                     {Event(p, "transfer_item_state", t, new_state) :
                         p \in {sender_principal_id[t], ReceiverOwner}})

ItemTerminalStates == {"finalized", "completed", "rejected", "failed", "cancelled", "expired"}

\* cancel_pending_transfers, were it to select the transfers the caller sent only.
cancel_sent_transfers(principal) ==
    LET transfers == {t \in TransferIds :
                        /\ transfer_state[t] # NoRow
                        /\ transfer_state[t] \notin TERMINAL_TRANSFER_STATES
                        /\ principal = sender_principal_id[t]}
    IN  Outcome(200, TRUE,
                [t \in TransferIds |->
                    IF t \in transfers THEN "cancelled" ELSE transfer_state[t]],
                [t \in TransferIds |->
                    IF t \in transfers
                    THEN [i \in DOMAIN item_state[t] |->
                            IF item_state[t][i] \notin ItemTerminalStates
                            THEN "cancelled" ELSE item_state[t][i]]
                    ELSE item_state[t]],
                passcode_window,
                UNION {{Event(p, "transfer_cancelled", t, "cancelled") :
                            p \in {sender_principal_id[t], ReceiverOwner}} : t \in transfers})

cancel_pending_transfers(principal) ==
    LET transfers == {t \in TransferIds :
                        /\ transfer_state[t] # NoRow
                        /\ transfer_state[t] \notin TERMINAL_TRANSFER_STATES
                        /\ principal \in {sender_principal_id[t], ReceiverOwner}}
    IN  Outcome(200, TRUE,
                [t \in TransferIds |->
                    IF t \in transfers THEN "cancelled" ELSE transfer_state[t]],
                [t \in TransferIds |->
                    IF t \in transfers
                    THEN [i \in DOMAIN item_state[t] |->
                            IF item_state[t][i] \notin ItemTerminalStates
                            THEN "cancelled" ELSE item_state[t][i]]
                    ELSE item_state[t]],
                passcode_window,
                UNION {{Event(p, "transfer_cancelled", t, "cancelled") :
                            p \in {sender_principal_id[t], ReceiverOwner}} : t \in transfers})

-----------------------------------------------------------------------------
(* Coordinator: requests handled one at a time *)

\* get_db: the handler's session is closed when the request ends; only what
\* db.commit() wrote is kept, and events are published after the commit.
get_db(op, t, out) ==
    /\ transfer_state' = IF out.committed THEN out.ts ELSE transfer_state
    /\ item_state' = IF out.committed THEN out.its ELSE item_state
    /\ passcode_window' = IF out.committed THEN out.pw ELSE passcode_window
    /\ response' = [op |-> op, transfer_id |-> t, status |-> out.status,
                    events |-> out.events]

FreeIds == {t \in TransferIds : transfer_state[t] = NoRow}

CreateTransfer(principal) ==
    /\ FreeIds # {}
    /\ LET t == CHOOSE x \in FreeIds : \A y \in FreeIds : x <= y
           out == create_transfer(t, principal)
       IN  /\ get_db("create", t, out)
           /\ sender_principal_id' =
                IF out.committed THEN [sender_principal_id EXCEPT ![t] = principal]
                ELSE sender_principal_id

ApproveTransfer(t, principal, passcode) ==
    /\ get_db("approve", t, approve_transfer(t, principal, passcode))
    /\ UNCHANGED sender_principal_id

RejectTransfer(t, principal) ==
    /\ get_db("reject", t, reject_transfer(t, principal))
    /\ UNCHANGED sender_principal_id

OpenPasscodeWindow(t, principal, passcode) ==
    /\ get_db("open_passcode", t, open_passcode_window(t, principal, passcode))
    /\ UNCHANGED sender_principal_id

UpdateTransferItemState(t, i, state, secret_ok) ==
    /\ get_db("update_item_state", t, update_transfer_item_state(t, i, state, secret_ok))
    /\ UNCHANGED sender_principal_id

CancelPendingTransfers(principal) ==
    /\ get_db("cancel_pending", 0, cancel_pending_transfers(principal))
    /\ UNCHANGED sender_principal_id

Tick ==
    /\ now < MaxNow
    /\ now' = now + 1
    /\ UNCHANGED <<transfer_state, sender_principal_id, item_state, passcode_window,
                   response, wrong_streak, after_update>>

NoResponse == [op |-> "none", transfer_id |-> 0, status |-> 0, events |-> {}]

\* The database of a fresh coordinator: no transfer rows.
InitCoordinator ==
    /\ transfer_state = [t \in TransferIds |-> NoRow]
    /\ sender_principal_id = [t \in TransferIds |-> "nobody"]
    /\ item_state = [t \in TransferIds |-> <<>>]
    /\ passcode_window = [t \in TransferIds |-> NoWindow]
    /\ now = 0
    /\ response = NoResponse
    /\ wrong_streak = [t \in TransferIds |-> 0]
    /\ after_update = [t \in TransferIds |-> FALSE]

\* A database that holds transfer 1 from alice as a committed approve with
\* passcode RightPasscode leaves it: the rows set_transfer_passcode and
\* approve_transfer write.
InitApproved ==
    /\ now = 0
    /\ transfer_state = [t \in TransferIds |->
                            IF t = 1 THEN "approved_pending_sender_passcode" ELSE NoRow]
    /\ sender_principal_id = [t \in TransferIds |-> IF t = 1 THEN "alice" ELSE "nobody"]
    /\ item_state = [t \in TransferIds |->
                        IF t = 1 THEN [i \in 1..NumItems |-> "pending"] ELSE <<>>]
    /\ passcode_window = [t \in TransferIds |->
                            IF t = 1 THEN set_transfer_passcode(RightPasscode) ELSE NoWindow]
    /\ response = NoResponse
    /\ wrong_streak = [t \in TransferIds |-> 0]
    /\ after_update = [t \in TransferIds |-> FALSE]

InitSteps ==
    /\ handler = Idle
    /\ commit_log = <<>>
    /\ published = <<>>
    /\ served = 0

\* The names of the destination directory are the target name, numbered 0,
\* and "name (n)", numbered n; nothing is there and record.inbox_path is not
\* in it.
EmptyShareDir == [names |-> {}, record |-> None]

\* An agent that has received nothing.
InboxAtRest ==
    /\ manifest = [approved |-> FALSE, size |-> 0, sha256 |-> UNKNOWN_SHA256]
    /\ share_read_only = FALSE
    /\ share_dir = EmptyShareDir
    /\ inbox_items = <<>>
    /\ part_path = [exists |-> FALSE, data |-> <<>>]
    /\ inbox_path = [exists |-> FALSE, data |-> <<>>]
    /\ uploads = [r \in 1..NumUploads |-> Idle]
    /\ inbox_response = [op |-> "none", status |-> 0]

\* No ticket has been presented.
TicketsAtRest ==
    /\ agent_now = 0
    /\ ticket = [wellformed |-> FALSE]
    /\ verdict = [status |-> 0]

\* A broker without connections.
BrokerAtRest ==
    /\ connections = <<>>
    /\ principal_entry = FALSE
    /\ socket_state = [s \in 1..NumSockets |-> "new"]
    /\ calls = [c \in 1..NumPublishes |-> Idle]
    /\ outbox = [s \in 1..NumSockets |-> <<>>]
    /\ delivered = [s \in 1..NumSockets |-> <<>>]
    /\ publish_order = <<>>

\* The search in flight has not been answered yet.
NoSearchResponse == [federated |-> FALSE, items |-> <<>>, status |-> 0]

\* No search has been asked for.
SearchAtRest ==
    /\ search = Idle
    /\ search_response = NoSearchResponse

\* No principal, no pairing session, nothing asked.
NoAttempts == [exists |-> FALSE, failure_count |-> 0, locked_until |-> None]
NoPairingResponse == [status |-> 0, failures |-> 0, locked_for |-> 0, touched |-> FALSE]
PairingAtRest ==
    /\ pairing_session = [status |-> "none", expires_at |-> None]
    /\ pairing_attempts = NoAttempts
    /\ pairing_response = NoPairingResponse
    /\ principal_rows = 0
    /\ starts = [r \in 1..NumStarts |-> Idle]

\* Nothing recorded.
NoNotification == [transfer_id |-> 0, item |-> 0, state |-> "", applied |-> FALSE]
NoLockouts == [failures |-> 0, before |-> 0, locks |-> 0, previous |-> 0, last |-> 0]
HistoryAtRest ==
    /\ chunk_log = [accepted |-> {}, resend |-> FALSE, body |-> <<>>]
    /\ lockouts = NoLockouts
    /\ expires_at = [t \in TransferIds |-> None]
    /\ last_notification = NoNotification

\* No grant rows, every device visible and online, nothing asked.
AclAtRest ==
    /\ acl_grants = [p \in Principals |-> [s \in 1..NumShares |-> NoGrant]]
    /\ device = [s \in 1..NumShares |-> [visibility |-> TRUE, online |-> TRUE]]
    /\ acl_response = [op |-> "none"]
    /\ HistoryAtRest
    /\ PairingAtRest

CoordinatorAtRest == InitCoordinator /\ InitSteps
AtRest == InboxAtRest /\ TicketsAtRest /\ BrokerAtRest /\ SearchAtRest /\ AclAtRest

\* The histories a plain request leaves alone.
Quiet == UNCHANGED <<now, wrong_streak, after_update, stepVars, elsewhere>>

Next ==
    \/ \E p \in Principals : CreateTransfer(p) /\ Quiet
    \/ \E t \in TransferIds, p \in Principals :
            ApproveTransfer(t, p, RightPasscode) /\ Quiet
    \/ \E t \in TransferIds, p \in Principals : RejectTransfer(t, p) /\ Quiet
    \/ \E t \in TransferIds, p \in Principals, c \in Passcodes :
            OpenPasscodeWindow(t, p, c) /\ Quiet
    \/ \E t \in TransferIds, i \in 1..NumItems, s \in {"receiving", "finalized", "paused"} :
            UpdateTransferItemState(t, i, s, TRUE) /\ Quiet
    \/ \E p \in Principals : CancelPendingTransfers(p) /\ Quiet

Init == InitCoordinator /\ InitSteps /\ AtRest
Spec == Init /\ [][Next]_vars

\* The same requests, from a fresh database or from one with an approved transfer.
InitEither == (InitCoordinator \/ InitApproved) /\ InitSteps /\ AtRest
SpecApproved == InitEither /\ [][Next]_vars

\* Requests on the transfers alice creates, recording per transfer whether its
\* rows are the result of a committed update_item_state.
TrackUpdates ==
    /\ after_update' = [t \in TransferIds |->
            IF response'.op = "update_item_state" /\ response'.transfer_id = t
               /\ response'.events # {}
            THEN TRUE
            ELSE IF transfer_state'[t] # transfer_state[t] \/ item_state'[t] # item_state[t]
            THEN FALSE
            ELSE after_update[t]]
    /\ UNCHANGED <<now, wrong_streak, stepVars, elsewhere>>

NextUpdates ==
    \/ CreateTransfer("alice") /\ TrackUpdates
    \/ \E t \in TransferIds : RejectTransfer(t, ReceiverOwner) /\ TrackUpdates
    \/ \E t \in TransferIds, i \in 1..NumItems, s \in {"receiving", "finalized", "paused"} :
            UpdateTransferItemState(t, i, s, TRUE) /\ TrackUpdates
    \/ \E p \in Principals : CancelPendingTransfers(p) /\ TrackUpdates

SpecUpdates == Init /\ [][NextUpdates]_vars

\* The sender's passcode attempts on transfer 1 as time passes, counting the
\* consecutive wrong ones.
OpenAttempt(t, passcode) ==
    /\ OpenPasscodeWindow(t, sender_principal_id[t], passcode)
    /\ wrong_streak' = [wrong_streak EXCEPT ![t] =
            IF response'.status = 401 THEN Min(@ + 1, PASSCODE_ATTEMPTS + 1)
            ELSE IF response'.status = 200 THEN 0
            ELSE @]
    /\ UNCHANGED <<now, after_update, stepVars, elsewhere>>

NextPasscode ==
    \/ \E c \in Passcodes : OpenAttempt(1, c)
    \/ Tick /\ UNCHANGED <<stepVars, elsewhere>>

InitPasscode == InitApproved /\ InitSteps /\ AtRest
SpecPasscode == InitPasscode /\ [][NextPasscode]_vars

\* verify_passcode_for_transfer called again and again on the window of
\* transfer 1 by a caller that keeps what it flushed, with a record of the
\* failures since the last success: the failure_count before the
\* last failure, and the durations of the last two lockouts.
MaxFailures == 11

VerifyPasscode(passcode) ==
    LET window == passcode_window[1]
        v == verify_passcode_for_transfer(window, passcode)
        locked == v.window.locked_until # window.locked_until
    IN  /\ window.failure_count < MaxFailures
        /\ passcode_window' = [passcode_window EXCEPT ![1] = v.window]
        /\ response' = [op |-> "verify_passcode", transfer_id |-> 1,
                        status |-> v.status, events |-> {}]
        /\ lockouts' =
            IF v.status = 200 THEN NoLockouts
            ELSE IF v.status # 401 THEN lockouts
            ELSE [failures |-> lockouts.failures + 1,
                  before |-> window.failure_count,
                  locks |-> IF locked THEN Min(lockouts.locks + 1, 2) ELSE lockouts.locks,
                  previous |-> IF locked THEN lockouts.last ELSE lockouts.previous,
                  last |-> IF locked THEN v.window.locked_until - now ELSE lockouts.last]
        /\ UNCHANGED <<transfer_state, sender_principal_id, item_state, now,
                       wrong_streak, after_update>>

outsideLockout == <<stepVars, inboxVars, ticketVars, brokerVars, searchVars, aclVars,
                    chunk_log, expires_at, last_notification,
        pairingVars>>

NextLockout ==
    \/ (\E c \in Passcodes : VerifyPasscode(c)) /\ UNCHANGED outsideLockout
    \/ Tick /\ UNCHANGED <<stepVars, elsewhere>>

SpecLockout == InitPasscode /\ [][NextLockout]_vars

\* Two transfers alice created with the same content.  InitTwins holds both as
\* committed approves with the same passcode leave them.  Every step of
\* NextTwins is a request, and response is its answer.
InitTwins ==
    /\ now = 0
    /\ transfer_state = [t \in TransferIds |-> "approved_pending_sender_passcode"]
    /\ sender_principal_id = [t \in TransferIds |-> "alice"]
    /\ item_state = [t \in TransferIds |-> [i \in 1..NumItems |-> "pending"]]
    /\ passcode_window = [t \in TransferIds |-> set_transfer_passcode(RightPasscode)]
    /\ response = NoResponse
    /\ wrong_streak = [t \in TransferIds |-> 0]
    /\ after_update = [t \in TransferIds |-> FALSE]

NextTwins ==
    \/ CreateTransfer("alice") /\ Quiet
    \/ \E t \in TransferIds : ApproveTransfer(t, ReceiverOwner, RightPasscode) /\ Quiet
    \/ \E t \in TransferIds : RejectTransfer(t, ReceiverOwner) /\ Quiet
    \/ \E t \in TransferIds, c \in Passcodes : OpenPasscodeWindow(t, "alice", c) /\ Quiet
    \/ \E p \in Principals : CancelPendingTransfers(p) /\ Quiet

InitFreshOrTwins == (InitCoordinator \/ InitTwins) /\ InitSteps /\ AtRest
SpecTwins == InitFreshOrTwins /\ [][NextTwins]_vars

\* The body of POST /transfers: TransferCreateRequest.items is a list with
\* min_length and max_length; a body outside them is answered 422 by the
\* validation, before create_transfer is entered.
items_min_length == 1
items_max_length == 50
MaxItemCount == 201

TransferCreateRequest(item_count) ==
    item_count >= items_min_length /\ item_count <= items_max_length

PostTransfers(item_count) ==
    /\ response' = [op |-> "post_transfers", transfer_id |-> 0,
                    status |-> IF TransferCreateRequest(item_count) THEN 0 ELSE 422,
                    events |-> {}, item_count |-> item_count,
                    body_accepted |-> TransferCreateRequest(item_count)]
    /\ UNCHANGED <<transfer_state, sender_principal_id, item_state, passcode_window,
                   now, wrong_streak, after_update>>

NextCreateBody ==
    \/ (\E n \in 0..MaxItemCount : PostTransfers(n)) /\ UNCHANGED <<stepVars, elsewhere>>
    \/ Tick /\ UNCHANGED <<stepVars, elsewhere>>

SpecCreateBody == Init /\ [][NextCreateBody]_vars

\* Transfers as the day after their creation comes.  expires_at keeps what
\* create_transfer writes: _utcnow() + timedelta(hours=24).
TRANSFER_EXPIRY_SECONDS == 86400

\* get_transfer: _load_visible_transfer and the row as it is.
get_transfer(t, principal) ==
    IF transfer_state[t] = NoRow THEN Raise(404)
    ELSE IF principal \notin {sender_principal_id[t], ReceiverOwner} THEN Raise(403)
    ELSE Raise(200)

GetTransfer(t, principal) ==
    /\ get_db("get_transfer", t, get_transfer(t, principal))
    /\ UNCHANGED sender_principal_id

outsideExpiry == <<stepVars, inboxVars, ticketVars, brokerVars, searchVars, aclVars,
                   chunk_log, lockouts, last_notification,
        pairingVars>>
NoClockChange == UNCHANGED <<now, wrong_streak, after_update>>

CreateExpiring ==
    /\ CreateTransfer("alice")
    /\ expires_at' = [t \in TransferIds |->
            IF transfer_state[t] = NoRow /\ transfer_state'[t] # NoRow
            THEN now + TRANSFER_EXPIRY_SECONDS ELSE expires_at[t]]

\* A second, or a day, passes.
Elapse(seconds) ==
    /\ now <= MaxClock
    /\ now + seconds <= TRANSFER_EXPIRY_SECONDS + MaxClock
    /\ now' = now + seconds
    /\ UNCHANGED <<transfer_state, sender_principal_id, item_state, passcode_window,
                   response, wrong_streak, after_update>>

NextExpiry ==
    \/ CreateExpiring /\ NoClockChange /\ UNCHANGED outsideExpiry
    \/ (\E t \in TransferIds, p \in Principals : GetTransfer(t, p))
            /\ NoClockChange /\ UNCHANGED <<outsideExpiry, expires_at>>
    \/ (\E t \in TransferIds : ApproveTransfer(t, ReceiverOwner, RightPasscode))
            /\ NoClockChange /\ UNCHANGED <<outsideExpiry, expires_at>>
    \/ (\E t \in TransferIds : RejectTransfer(t, ReceiverOwner))
            /\ NoClockChange /\ UNCHANGED <<outsideExpiry, expires_at>>
    \/ (\E seconds \in {1, TRANSFER_EXPIRY_SECONDS} : Elapse(seconds))
            /\ UNCHANGED <<outsideExpiry, expires_at>>

SpecExpiry == Init /\ [][NextExpiry]_vars

\* The agent secret holder posts any state value.  TransferItemStateRequest:
\* state is a string of 1 to 30 characters; another body is answered 422.
state_min_length == 1
state_max_length == 30
RequestedStates == {"receiving", "staged", "finalized", "completed", "no-such-state",
                    "", "a-state-name-of-more-than-30-characters"}

TransferItemStateRequest(state) ==
    Len(state) >= state_min_length /\ Len(state) <= state_max_length

PostItemState(t, i, state) ==
    IF TransferItemStateRequest(state)
    THEN UpdateTransferItemState(t, i, state, TRUE)
    ELSE /\ get_db("update_item_state", t, Raise(422))
         /\ UNCHANGED sender_principal_id

NextAnyState ==
    \/ CreateTransfer("alice") /\ Quiet
    \/ (\E t \in TransferIds, i \in 1..NumItems, s \in RequestedStates :
            PostItemState(t, i, s)) /\ Quiet
    \/ (\E t \in TransferIds : RejectTransfer(t, ReceiverOwner)) /\ Quiet

SpecAnyState == Init /\ [][NextAnyState]_vars

\* The agent's notifications, each kept as the last request if the coordinator
\* applied it (it committed and published).
outsideNotify == <<now, wrong_streak, after_update, stepVars, inboxVars, ticketVars,
                   brokerVars, searchVars, aclVars, chunk_log, lockouts, expires_at,
        pairingVars>>

Notify(t, i, state) ==
    /\ UpdateTransferItemState(t, i, state, TRUE)
    /\ last_notification' = [transfer_id |-> t, item |-> i, state |-> state,
                             applied |-> response'.events # {}]

OtherThanNotify == last_notification' = NoNotification

NextNotify ==
    \/ CreateTransfer("alice") /\ OtherThanNotify /\ UNCHANGED outsideNotify
    \/ OpenPasscodeWindow(1, "alice", RightPasscode) /\ OtherThanNotify
            /\ UNCHANGED outsideNotify
    \/ (\E t \in TransferIds, i \in 1..NumItems, s \in {"receiving", "finalized", "paused"} :
            Notify(t, i, s)) /\ UNCHANGED outsideNotify

SpecNotify == InitEither /\ [][NextNotify]_vars


-----------------------------------------------------------------------------
(* Coordinator: confirm_pairing and its process-local lockout *)

\* _check_pairing_lock: 429 while locked; a lock that has run out is cleared
\* together with the failure count.
_check_pairing_lock(state, at) ==
    IF ~state.exists THEN [locked |-> FALSE, state |-> state]
    ELSE IF state.locked_until # None /\ state.locked_until > at
    THEN [locked |-> TRUE, state |-> state]
    ELSE IF state.locked_until # None /\ state.locked_until <= at
    THEN [locked |-> FALSE,
          state |-> [state EXCEPT !.locked_until = None, !.failure_count = 0]]
    ELSE [locked |-> FALSE, state |-> state]

\* _record_pairing_failure
_record_pairing_failure(state, at) ==
    LET failure_count == state.failure_count + 1
    IN  [exists |-> TRUE, failure_count |-> failure_count,
         locked_until |-> IF failure_count >= _MAX_PAIRING_ATTEMPTS
                          THEN at + Min(300, Pow2(Min(failure_count, 8)))
                          ELSE state.locked_until]

\* confirm_pairing with the right or a wrong pairing code.
ConfirmPairing(code_is_right) ==
    LET checked == _check_pairing_lock(pairing_attempts, now)
        recorded == _record_pairing_failure(checked.state, now)
    IN  IF pairing_session.status # "pending"
        THEN /\ pairing_response' = [NoPairingResponse EXCEPT !.status = 404,
                                        !.failures = pairing_response.failures]
             /\ UNCHANGED <<pairing_session, pairing_attempts>>
        ELSE IF checked.locked
        THEN /\ pairing_response' = [status |-> 429, failures |-> pairing_response.failures,
                                     locked_for |-> 0,
                                     touched |-> checked.state # pairing_attempts]
             /\ UNCHANGED <<pairing_session, pairing_attempts>>
        ELSE IF ~code_is_right
        THEN /\ pairing_attempts' = recorded
             /\ pairing_response' =
                    [status |-> 401, failures |-> pairing_response.failures + 1,
                     locked_for |-> IF recorded.failure_count >= _MAX_PAIRING_ATTEMPTS
                                    THEN recorded.locked_until - now ELSE 0,
                     touched |-> TRUE]
             /\ UNCHANGED pairing_session
        ELSE IF pairing_session.expires_at < now
        THEN /\ pairing_session' = [pairing_session EXCEPT !.status = "expired"]
             /\ pairing_attempts' = NoAttempts
             /\ pairing_response' = [NoPairingResponse EXCEPT !.status = 410]
        ELSE /\ pairing_session' = [pairing_session EXCEPT !.status = "confirmed"]
             /\ pairing_attempts' = NoAttempts
             /\ pairing_response' = [NoPairingResponse EXCEPT !.status = 200]

\* Time passes: half the shortest lockout, all of it, or the lifetime of a pairing code.
PairingTick(seconds) ==
    /\ now + seconds <= MaxPairingClock
    /\ now' = now + seconds

outsidePairing == <<transfer_state, sender_principal_id, item_state, passcode_window,
                    response, wrong_streak, after_update, stepVars, inboxVars, ticketVars,
                    brokerVars, searchVars, aclVars, historyVars>>

NextConfirm ==
    \/ (\E code_is_right \in BOOLEAN : ConfirmPairing(code_is_right))
            /\ UNCHANGED <<now, principal_rows, starts, outsidePairing>>
    \/ (\E seconds \in {16, 32, pairing_code_ttl_seconds} : PairingTick(seconds))
            /\ UNCHANGED <<pairingVars, outsidePairing>>

\* A coordinator with one principal and one pairing session it has started.
InitPaired ==
    /\ InitCoordinator /\ InitSteps
    /\ InboxAtRest /\ TicketsAtRest /\ BrokerAtRest /\ SearchAtRest
    /\ acl_grants = [p \in Principals |-> [s \in 1..NumShares |-> NoGrant]]
    /\ device = [s \in 1..NumShares |-> [visibility |-> TRUE, online |-> TRUE]]
    /\ acl_response = [op |-> "none"]
    /\ HistoryAtRest
    /\ pairing_session = [status |-> "pending", expires_at |-> pairing_code_ttl_seconds]
    /\ pairing_attempts = NoAttempts
    /\ pairing_response = NoPairingResponse
    /\ principal_rows = 1
    /\ starts = [r \in 1..NumStarts |-> Idle]

SpecConfirm == InitPaired /\ [][NextConfirm]_vars


-----------------------------------------------------------------------------
(* Coordinator: start_pairing, handled in worker threads *)

\* select(Principal.id).limit(1): the request learns whether a principal exists.
StartPairingRead(r) ==
    /\ starts[r] = Idle
    /\ starts' = [starts EXCEPT ![r] = [pc |-> "checked",
                                        has_principal |-> principal_rows > 0]]
    /\ UNCHANGED <<pairing_session, pairing_attempts, pairing_response, principal_rows>>

\* The rest of the handler: without a principal it inserts one with its
\* first device and commits, else it inserts a pairing session and commits.
StartPairingCommit(r) ==
    /\ starts[r] # Idle /\ starts[r].pc = "checked"
    /\ IF ~starts[r].has_principal
       THEN /\ principal_rows' = principal_rows + 1
            /\ starts' = [starts EXCEPT ![r] = [pc |-> "done", bootstrap |-> TRUE]]
            /\ UNCHANGED pairing_session
       ELSE /\ pairing_session' =
                    IF pairing_session.status = "none"
                    THEN [status |-> "pending", expires_at |-> now + pairing_code_ttl_seconds]
                    ELSE pairing_session
            /\ starts' = [starts EXCEPT ![r] = [pc |-> "done", bootstrap |-> FALSE]]
            /\ UNCHANGED principal_rows
    /\ UNCHANGED <<pairing_attempts, pairing_response>>

NextBootstrap ==
    \/ (\E r \in 1..NumStarts : StartPairingRead(r)) /\ UNCHANGED <<now, outsidePairing>>
    \/ (\E r \in 1..NumStarts : StartPairingCommit(r)) /\ UNCHANGED <<now, outsidePairing>>
    \/ (\E code_is_right \in BOOLEAN : ConfirmPairing(code_is_right))
            /\ UNCHANGED <<now, principal_rows, starts, outsidePairing>>
    \/ (\E seconds \in {32, pairing_code_ttl_seconds} : PairingTick(seconds))
            /\ UNCHANGED <<pairingVars, outsidePairing>>

SpecBootstrap == Init /\ [][NextBootstrap]_vars

\* The state the agent reports next for an item: upload_chunk reports receiving
\* and, with the final chunk, staged; commit reports committed, finalize finalized.
NextReport(state) ==
    IF state = "pending" THEN "receiving"
    ELSE IF state = "receiving" THEN "staged"
    ELSE IF state = "staged" THEN "committed"
    ELSE "finalized"

\* The agent's next notification for an item of a transfer whose passcode the
\* sender has opened.
AgentNotifies(t, i) ==
    /\ transfer_state[t] \in {"passcode_open", "in_progress"}
    /\ i \in DOMAIN item_state[t]
    /\ item_state[t][i] \in {"pending", "receiving", "staged", "committed"}
    /\ UpdateTransferItemState(t, i, NextReport(item_state[t][i]), TRUE)

\* A transfer carried through by its parties: alice sends, bob approves, alice
\* opens the passcode, the agent receives every item and reports each state once.
NextDelivery ==
    \/ CreateTransfer("alice") /\ Quiet
    \/ \E t \in TransferIds : ApproveTransfer(t, ReceiverOwner, RightPasscode) /\ Quiet
    \/ \E t \in TransferIds : OpenPasscodeWindow(t, "alice", RightPasscode) /\ Quiet
    \/ \E t \in TransferIds, i \in 1..NumItems : AgentNotifies(t, i) /\ Quiet

\* Every party goes on until its step has succeeded.
FairDelivery ==
    /\ WF_vars(CreateTransfer("alice") /\ Quiet)
    /\ \A t \in TransferIds :
            /\ WF_vars(ApproveTransfer(t, ReceiverOwner, RightPasscode) /\ Quiet)
            /\ WF_vars(OpenPasscodeWindow(t, "alice", RightPasscode) /\ Quiet)
            /\ \A i \in 1..NumItems : WF_vars(AgentNotifies(t, i) /\ Quiet)

SpecDelivery == InitEither /\ [][NextDelivery]_vars /\ FairDelivery

-----------------------------------------------------------------------------
(* Coordinator: one request handled statement by statement *)

\* What each handler does once its checks have passed, in program order.
approve_transfer_tail == <<"write_audit", "db.commit", "db.refresh", "broker.publish">>
open_passcode_window_tail == <<"write_audit", "db.commit", "db.refresh", "broker.publish">>
\* update_transfer_item_state publishing before it commits.
update_item_state_publish_first == <<"broker.publish", "db.commit", "db.refresh">>
update_transfer_item_state_tail == <<"db.commit", "db.refresh", "broker.publish">>
create_transfer_tail == <<"write_audit", "db.commit", "db.refresh", "broker.publish">>

HandlerTail(op) ==
    CASE op = "approve" -> approve_transfer_tail
      [] op = "open_passcode" -> open_passcode_window_tail
      [] op = "update_item_state" -> update_transfer_item_state_tail
      [] OTHER -> create_transfer_tail

\* The handler runs its checks and changes the rows in its session; a handler
\* that raises has no statements left.
Begin(op, t, out) ==
    /\ handler = Idle
    /\ served < MaxRequests
    /\ served' = served + 1
    /\ handler' = [pc |-> 1, op |-> op, transfer_id |-> t, out |-> out,
                   sender |-> sender_principal_id[t],
                   steps |-> IF out.committed THEN HandlerTail(op) ELSE <<>>]
    /\ UNCHANGED <<coordVars, commit_log, published, elsewhere>>

BeginRequest ==
    \/ /\ FreeIds # {}
       /\ LET t == CHOOSE x \in FreeIds : \A y \in FreeIds : x <= y
          IN  Begin("create", t, create_transfer(t, "alice"))
    \/ \E p \in Principals : Begin("approve", 1, approve_transfer(1, p, RightPasscode))
    \/ \E c \in Passcodes : Begin("open_passcode", 1, open_passcode_window(1, "alice", c))
    \/ \E i \in 1..NumItems, s \in {"receiving", "finalized"} :
            Begin("update_item_state", 1, update_transfer_item_state(1, i, s, TRUE))

\* The next statement of the handler in flight.
Step ==
    /\ handler # Idle
    /\ handler.pc <= Len(handler.steps)
    /\ LET stmt == handler.steps[handler.pc]
           t == handler.transfer_id
           out == handler.out
       IN  /\ handler' = [handler EXCEPT !.pc = @ + 1]
           /\ IF stmt = "db.commit"
              THEN /\ transfer_state' = out.ts
                   /\ item_state' = out.its
                   /\ passcode_window' = out.pw
                   /\ sender_principal_id' =
                        IF handler.op = "create"
                        THEN [sender_principal_id EXCEPT ![t] = "alice"]
                        ELSE sender_principal_id
                   /\ commit_log' = Append(commit_log, [op |-> handler.op, transfer_id |-> t])
              ELSE UNCHANGED <<transfer_state, item_state, passcode_window,
                               sender_principal_id, commit_log>>
           /\ IF stmt = "broker.publish"
              THEN published' = Append(published,
                        [op |-> handler.op, transfer_id |-> t, events |-> out.events,
                         payload_state |-> out.ts[t], db_state |-> transfer_state[t]])
              ELSE UNCHANGED published
    /\ UNCHANGED <<now, response, wrong_streak, after_update, served, elsewhere>>

\* The response is sent and get_db closes the session.
End ==
    /\ handler # Idle
    /\ handler.pc > Len(handler.steps)
    /\ response' = [op |-> handler.op, transfer_id |-> handler.transfer_id,
                    status |-> handler.out.status, events |-> handler.out.events]
    /\ handler' = Idle
    /\ UNCHANGED <<transfer_state, sender_principal_id, item_state, passcode_window,
                   now, wrong_streak, after_update, commit_log, published, served,
                   elsewhere>>

NextSteps == BeginRequest \/ Step \/ End

SpecSteps == InitEither /\ [][NextSteps]_vars


-----------------------------------------------------------------------------
(* Coordinator: update_transfer_item_state running beside cancel and reject *)

\* update_transfer_item_state in a worker of its own: db.get of the transfer
\* and the select of the item load both rows into the session.
LoadTransfer(t, i, state) ==
    /\ handler = Idle
    /\ transfer_state[t] # NoRow
    /\ transfer_state[t] \notin TERMINAL_TRANSFER_STATES
    /\ i \in DOMAIN item_state[t]
    /\ handler' = [pc |-> "loaded", op |-> "update_item_state", transfer_id |-> t,
                   item |-> i, state |-> state, loaded |-> transfer_state[t],
                   derived |-> transfer_state[t]]
    /\ UNCHANGED <<coordVars, commit_log, published, served, elsewhere>>

\* The count of the item rows by state, as the database has them now, and
\* the transfer state the handler assigns from it.
CountItems ==
    /\ handler # Idle /\ handler.pc = "loaded"
    /\ handler' = [handler EXCEPT
                        !.pc = "counted",
                        !.derived = DerivedState(item_state[handler.transfer_id],
                                                 handler.loaded)]
    /\ UNCHANGED <<coordVars, commit_log, published, served, elsewhere>>

\* db.commit: the session flushes an UPDATE for the attributes it changed,
\* the item's state and, if it was assigned another value than the one
\* loaded, the transfer's state.
CommitUpdate ==
    /\ handler # Idle /\ handler.pc = "counted"
    /\ LET t == handler.transfer_id
       IN  /\ item_state' = [item_state EXCEPT ![t][handler.item] = handler.state]
           /\ transfer_state' =
                IF handler.derived # handler.loaded
                THEN [transfer_state EXCEPT ![t] = handler.derived]
                ELSE transfer_state
           /\ response' = [op |-> "update_item_state", transfer_id |-> t, status |-> 200,
                           events |-> {}]
    /\ handler' = Idle
    /\ UNCHANGED <<sender_principal_id, passcode_window, now, wrong_streak, after_update,
                   commit_log, published, served, elsewhere>>

NextRace ==
    \/ \E i \in 1..NumItems, s \in {"receiving", "finalized"} : LoadTransfer(1, i, s)
    \/ CountItems
    \/ CommitUpdate
    \/ \E p \in Principals : RejectTransfer(1, p) /\ Quiet
    \/ \E p \in Principals : CancelPendingTransfers(p) /\ Quiet

SpecRace == InitEither /\ [][NextRace]_vars

-----------------------------------------------------------------------------
(* Agent inbox: data *)

Bytes == {0, 1}
ItemKey == "t1:i1"
UploadIds == 1..NumUploads
Missing == [exists |-> FALSE, data |-> <<>>]
File(data) == [exists |-> TRUE, data |-> data]
FileSize(f) == IF f.exists THEN Len(f.data) ELSE 0

\* hashlib.sha256 over the file: a digest out of DigestSpace values, none of
\* them the all-zero one.
RECURSIVE SHA256(_)
SHA256(data) ==
    IF data = <<>> THEN 1
    ELSE 1 + ((2 * SHA256(SubSeq(data, 1, Len(data) - 1)) + data[Len(data)]) % DigestSpace)

Digests == 1..DigestSpace

Payloads == UNION {[1..n -> Bytes] : n \in 0..(upload_chunk_max_bytes + 1)}

\* file_obj.write at position pos; a gap left by a truncation reads as zeros.
WriteAt(f, pos, b) ==
    File([i \in 1..(IF Len(f.data) > pos THEN Len(f.data) ELSE pos + 1) |->
            IF i = pos + 1 THEN b
            ELSE IF i <= Len(f.data) THEN f.data[i]
            ELSE 0])

\* file_obj.truncate(size)
Truncate(f, size) ==
    File([i \in 1..size |-> IF i <= Len(f.data) THEN f.data[i] ELSE 0])

\* The row upload_chunk adds when the item has none.
NewRecord ==
    [state |-> "pending", received_size |-> 0,
     expected_size |-> manifest.size, expected_sha256 |-> manifest.sha256]

HasRecord == ItemKey \in DOMAIN inbox_items
Record == IF HasRecord THEN inbox_items[ItemKey] ELSE NewRecord

-----------------------------------------------------------------------------
(* Agent inbox: upload_chunk, from await to await *)

\* upload_chunk without the comparison of the offset with received_size.
upload_chunk_any_offset(offset, size, content_length) ==
    IF content_length # None /\ content_length > upload_chunk_max_bytes THEN 413
    ELSE IF ~HasRecord /\ ~manifest.approved THEN 404
    ELSE IF ~HasRecord /\ size # manifest.size THEN 409
    ELSE IF Record.state \in {"committed", "finalized"} THEN 409
    ELSE IF Record.state = "paused" THEN 409
    ELSE IF Record.expected_size # size THEN 409
    ELSE IF Record.expected_size - offset < 0 THEN 409
    ELSE 200

\* upload_chunk up to the first read of the body: the status it raises, or 200
\* if it goes on to read the body.
upload_chunk_checks(offset, size, content_length) ==
    IF content_length # None /\ content_length > upload_chunk_max_bytes THEN 413
    ELSE IF ~HasRecord /\ ~manifest.approved THEN 404
    ELSE IF ~HasRecord /\ size # manifest.size THEN 409
    ELSE IF Record.state \in {"committed", "finalized"} THEN 409
    ELSE IF Record.state = "paused" THEN 409
    ELSE IF Record.expected_size # size THEN 409
    ELSE IF offset # FileSize(part_path) THEN 409
    ELSE IF Record.expected_size - offset < 0 THEN 409
    ELSE 200

\* The answer of a chunk request, with what the request found and left behind.
Answered(status, offset, written, too_long, known, pre_len, peers, rows, file) ==
    [pc |-> "done", status |-> status, offset |-> offset, written |-> written,
     too_long |-> too_long, known |-> known,
     pre_len |-> pre_len, post_len |-> FileSize(file), peers |-> peers,
     received_size |-> IF ItemKey \in DOMAIN rows THEN rows[ItemKey].received_size ELSE None,
     expected_size |-> IF ItemKey \in DOMAIN rows THEN rows[ItemKey].expected_size ELSE None]

InFlight == {r \in UploadIds : uploads[r].pc = "stream"}
NoAnswer == [op |-> "none", status |-> 0]

BeginUpload(r, offset, size, payload, is_last, content_length) ==
    /\ uploads[r].pc # "stream"
    /\ LET status == upload_chunk_checks(offset, size, content_length)
           known == HasRecord \/ manifest.approved
       IN  IF status = 200
           THEN /\ uploads' = [uploads EXCEPT ![r] =
                        [pc |-> "stream", offset |-> offset, payload |-> payload,
                         body |-> payload, written |-> 0, is_last |-> is_last, known |-> known,
                         loaded |-> Record, created |-> ~HasRecord,
                         pre_len |-> FileSize(part_path), peers |-> InFlight]]
                \* mode "wb" creates the part file
                /\ part_path' = IF part_path.exists THEN part_path ELSE File(<<>>)
           ELSE /\ uploads' = [uploads EXCEPT ![r] =
                        Answered(status, offset, 0, status = 413, known,
                                 FileSize(part_path), InFlight, inbox_items, part_path)]
                /\ UNCHANGED part_path
    /\ inbox_response' = NoAnswer
    /\ UNCHANGED <<manifest, share_read_only, share_dir, inbox_items, inbox_path>>

\* One payload_chunk of request.stream(), here one byte.
StreamChunk(r) ==
    /\ uploads[r].pc = "stream"
    /\ uploads[r].payload # <<>>
    /\ LET u == uploads[r]
           written == u.written + 1
           remaining_expected == u.loaded.expected_size - u.offset
           status == IF written > upload_chunk_max_bytes THEN 413
                     ELSE IF written > remaining_expected THEN 409
                     ELSE 200
       IN  IF status = 200
           THEN /\ part_path' = WriteAt(part_path, u.offset + u.written, Head(u.payload))
                /\ uploads' = [uploads EXCEPT ![r].payload = Tail(u.payload),
                                              ![r].written = written]
           ELSE /\ part_path' = Truncate(part_path, u.offset)
                /\ uploads' = [uploads EXCEPT ![r] =
                        Answered(status, u.offset, written, FALSE, u.known,
                                 u.pre_len, u.peers, inbox_items, part_path')]
    /\ UNCHANGED <<manifest, share_read_only, share_dir, inbox_items, inbox_path, inbox_response>>

\* The client goes away while the body is read: "Failed to read chunk payload".
StreamAbort(r) ==
    /\ uploads[r].pc = "stream"
    /\ uploads[r].payload # <<>>
    /\ part_path' = Truncate(part_path, uploads[r].offset)
    /\ LET u == uploads[r]
       IN  uploads' = [uploads EXCEPT ![r] =
                Answered(400, u.offset, u.written, FALSE, u.known,
                         u.pre_len, u.peers, inbox_items, part_path')]
    /\ UNCHANGED <<manifest, share_read_only, share_dir, inbox_items, inbox_path, inbox_response>>

\* The UPDATE db.commit() sends: the attributes whose value differs from the
\* loaded one; an INSERT for a row the session created.
Flushed(u, received_size, state) ==
    IF u.created
    THEN ItemKey :> [u.loaded EXCEPT !.received_size = received_size, !.state = state]
    ELSE ItemKey :> [inbox_items[ItemKey] EXCEPT
                        !.received_size = IF received_size # u.loaded.received_size
                                          THEN received_size ELSE @,
                        !.state = IF state # u.loaded.state THEN state ELSE @]

\* The body has been read to its end.
FinishUpload(r) ==
    /\ uploads[r].pc = "stream"
    /\ uploads[r].payload = <<>>
    /\ LET u == uploads[r]
           received_size == u.offset + u.written
           new_state == IF u.is_last THEN "staged" ELSE "receiving"
       IN  IF u.is_last /\ received_size # u.loaded.expected_size
           THEN /\ uploads' = [uploads EXCEPT ![r] =
                        Answered(409, u.offset, u.written, FALSE, u.known,
                                 u.pre_len, u.peers, inbox_items, part_path)]
                /\ UNCHANGED inbox_items
           ELSE IF u.created /\ HasRecord
           THEN \* the INSERT meets the row another request inserted
                /\ uploads' = [uploads EXCEPT ![r] =
                        Answered(500, u.offset, u.written, FALSE, u.known,
                                 u.pre_len, u.peers, inbox_items, part_path)]
                /\ UNCHANGED inbox_items
           ELSE /\ inbox_items' = Flushed(u, received_size, new_state)
                /\ uploads' = [uploads EXCEPT ![r] =
                        Answered(200, u.offset, u.written, FALSE, u.known,
                                 u.pre_len, u.peers, inbox_items', part_path)]
    /\ UNCHANGED <<manifest, share_read_only, share_dir, part_path, inbox_path, inbox_response>>

-----------------------------------------------------------------------------
(* Agent inbox: commit, pause, resume, finalize *)

\* The client has read the answers of its chunk requests.
AnswersRead == [r \in UploadIds |-> Idle]

InboxAnswer(op, status, before, rows) ==
    [op |-> op, status |-> status, state_before |-> before, part_before |-> part_path,
     state_after |-> IF ItemKey \in DOMAIN rows THEN rows[ItemKey].state ELSE "no_row"]

StateNow == IF HasRecord THEN inbox_items[ItemKey].state ELSE "no_row"

\* commit_transfer_item without the comparison of the file's digest.
commit_any_digest ==
    IF ~HasRecord THEN 404
    ELSE IF ~part_path.exists THEN 404
    ELSE IF Len(part_path.data) # Record.expected_size THEN 409
    ELSE 200

\* commit_transfer_item without the comparison of the file's size.
commit_any_size ==
    IF ~HasRecord THEN 404
    ELSE IF ~part_path.exists THEN 404
    ELSE IF Record.expected_sha256 # UNKNOWN_SHA256
            /\ SHA256(part_path.data) # Record.expected_sha256 THEN 409
    ELSE 200

\* The status commit_transfer_item answers.
commit_transfer_item ==
    IF ~HasRecord THEN 404
    ELSE IF ~part_path.exists THEN 404
    ELSE IF Len(part_path.data) # Record.expected_size THEN 409
    ELSE IF Record.expected_sha256 # UNKNOWN_SHA256
            /\ SHA256(part_path.data) # Record.expected_sha256 THEN 409
    ELSE 200

CommitTransferItem ==
    /\ InFlight = {}
    /\ LET status == commit_transfer_item
       IN  /\ IF status = 200
              THEN /\ inbox_path' = File(part_path.data)
                   /\ part_path' = Missing
                   /\ inbox_items' = [inbox_items EXCEPT ![ItemKey].state = "committed"]
              ELSE UNCHANGED <<inbox_path, part_path, inbox_items>>
           /\ inbox_response' = InboxAnswer("commit", status, StateNow, inbox_items')
    /\ uploads' = AnswersRead
    /\ UNCHANGED <<manifest, share_read_only, share_dir>>

\* pause_transfer, were it to pause the items in any state.
PauseEveryItem ==
    /\ InFlight = {}
    /\ inbox_items' = [k \in DOMAIN inbox_items |->
            [inbox_items[k] EXCEPT !.state = "paused"]]
    /\ inbox_response' = InboxAnswer("pause", 200, StateNow, inbox_items')
    /\ uploads' = AnswersRead
    /\ UNCHANGED <<manifest, share_read_only, share_dir, part_path, inbox_path>>

PauseTransfer ==
    /\ InFlight = {}
    /\ inbox_items' = [k \in DOMAIN inbox_items |->
            IF inbox_items[k].state \in {"pending", "receiving", "staged"}
            THEN [inbox_items[k] EXCEPT !.state = "paused"]
            ELSE inbox_items[k]]
    /\ inbox_response' = InboxAnswer("pause", 200, StateNow, inbox_items')
    /\ uploads' = AnswersRead
    /\ UNCHANGED <<manifest, share_read_only, share_dir, part_path, inbox_path>>

\* resume_transfer, were it to resume the items in any state.
ResumeEveryItem ==
    /\ InFlight = {}
    /\ inbox_items' = [k \in DOMAIN inbox_items |->
            [inbox_items[k] EXCEPT !.state = "receiving"]]
    /\ inbox_response' = InboxAnswer("resume", 200, StateNow, inbox_items')
    /\ uploads' = AnswersRead
    /\ UNCHANGED <<manifest, share_read_only, share_dir, part_path, inbox_path>>

ResumeTransfer ==
    /\ InFlight = {}
    /\ inbox_items' = [k \in DOMAIN inbox_items |->
            IF inbox_items[k].state = "paused"
            THEN [inbox_items[k] EXCEPT !.state = "receiving"]
            ELSE inbox_items[k]]
    /\ inbox_response' = InboxAnswer("resume", 200, StateNow, inbox_items')
    /\ uploads' = AnswersRead
    /\ UNCHANGED <<manifest, share_read_only, share_dir, part_path, inbox_path>>

\* _next_available_path: the name itself if it is free, else the first free
\* "name (index)".
_next_available_path(names) ==
    IF 0 \notin names THEN 0
    ELSE CHOOSE index \in 1..999 : index \notin names /\ \A j \in 1..(index - 1) : j \in names

\* The status finalize_transfer_item answers.
finalize_transfer_item ==
    IF ~HasRecord THEN 404
    ELSE IF Record.state \notin {"committed", "finalized"} THEN 409
    ELSE IF share_read_only THEN 403
    ELSE IF ~inbox_path.exists THEN 404
    ELSE 200

FinalizeTransferItem ==
    /\ InFlight = {}
    /\ LET status == finalize_transfer_item
       IN  /\ inbox_items' = IF status = 200
                             THEN [inbox_items EXCEPT ![ItemKey].state = "finalized"]
                             ELSE inbox_items
           \* shutil.move to the next free name of the destination directory
           /\ share_dir' =
                IF status = 200
                THEN LET destination_path == _next_available_path(share_dir.names)
                     IN  [names |-> (share_dir.names \ {share_dir.record})
                                        \cup {destination_path},
                          record |-> destination_path]
                ELSE share_dir
           /\ inbox_response' = InboxAnswer("finalize", status, StateNow, inbox_items')
    /\ uploads' = AnswersRead
    /\ UNCHANGED <<manifest, share_read_only, part_path, inbox_path>>

-----------------------------------------------------------------------------
(* Agent inbox: specifications *)

\* The coordinator knows the item or not; the agent has received nothing.
InitInbox ==
    /\ manifest \in [approved : BOOLEAN, size : 0..MaxSize,
                     sha256 : Digests \cup {UNKNOWN_SHA256}]
    /\ manifest.approved \/ (manifest.size = 0 /\ manifest.sha256 = UNKNOWN_SHA256)
    /\ share_read_only \in BOOLEAN
    /\ share_dir = EmptyShareDir
    /\ inbox_items = <<>>
    /\ part_path = Missing
    /\ inbox_path = Missing
    /\ uploads = [r \in UploadIds |-> Idle]
    /\ inbox_response = NoAnswer

InboxAlone == CoordinatorAtRest /\ TicketsAtRest /\ BrokerAtRest /\ SearchAtRest /\ AclAtRest
outsideInbox == <<coordVars, stepVars, ticketVars, brokerVars, searchVars, aclVars, historyVars,
        pairingVars>>

\* One client: a request is sent when the previous one has been answered.
NextInbox ==
    \/ /\ InFlight = {}
       /\ \E offset \in 0..(MaxSize + 1), size \in {manifest.size, manifest.size + 1},
             payload \in Payloads,
             is_last \in BOOLEAN, with_length \in BOOLEAN :
            BeginUpload(1, offset, size, payload, is_last,
                        IF with_length THEN Len(payload) ELSE None)
       /\ UNCHANGED outsideInbox
    \/ StreamChunk(1) /\ UNCHANGED outsideInbox
    \/ StreamAbort(1) /\ UNCHANGED outsideInbox
    \/ FinishUpload(1) /\ UNCHANGED outsideInbox
    \/ CommitTransferItem /\ UNCHANGED outsideInbox
    \/ PauseTransfer /\ UNCHANGED outsideInbox
    \/ ResumeTransfer /\ UNCHANGED outsideInbox
    \/ FinalizeTransferItem /\ UNCHANGED outsideInbox

InitInboxSpec == InitInbox /\ InboxAlone
SpecInbox == InitInboxSpec /\ [][NextInbox]_vars

\* An item whose first byte has been received, and chunk requests of several
\* connections, each carrying bytes, sent once and handled on the one event loop.
InitReceiving ==
    /\ manifest \in [approved : {TRUE}, size : 2..MaxSize, sha256 : {UNKNOWN_SHA256}]
    /\ share_read_only = FALSE
    /\ share_dir = EmptyShareDir
    /\ inbox_items = ItemKey :> [NewRecord EXCEPT !.state = "receiving", !.received_size = 1]
    /\ part_path \in {File(<<b>>) : b \in Bytes}
    /\ inbox_path = Missing
    /\ uploads = [r \in UploadIds |-> Idle]
    /\ inbox_response = NoAnswer

NextUploads ==
    \/ /\ \E r \in UploadIds, offset \in 0..MaxSize, payload \in Payloads \ {<<>>},
             is_last \in BOOLEAN :
            /\ uploads[r].pc = "idle"
            /\ BeginUpload(r, offset, manifest.size, payload, is_last, Len(payload))
       /\ UNCHANGED outsideInbox
    \/ (\E r \in UploadIds : StreamChunk(r)) /\ UNCHANGED outsideInbox
    \/ (\E r \in UploadIds : StreamAbort(r)) /\ UNCHANGED outsideInbox
    \/ (\E r \in UploadIds : FinishUpload(r)) /\ UNCHANGED outsideInbox

InitUploads == InitReceiving /\ InboxAlone
SpecUploads == InitUploads /\ [][NextUploads]_vars

\* The requests of one client, with a record of the chunks that were accepted
\* and of whether the chunk now sent repeats one of them.
outsideResend == <<coordVars, stepVars, ticketVars, brokerVars, searchVars, aclVars, lockouts,
                   expires_at, last_notification,
        pairingVars>>
OtherRequest == chunk_log' = [chunk_log EXCEPT !.resend = FALSE, !.body = <<>>]

NextResend ==
    \/ /\ InFlight = {}
       /\ \E offset \in 0..MaxSize, payload \in Payloads, is_last \in BOOLEAN :
            /\ BeginUpload(1, offset, manifest.size, payload, is_last, Len(payload))
            /\ chunk_log' = [chunk_log EXCEPT
                    !.resend = [offset |-> offset, body |-> payload] \in chunk_log.accepted,
                    !.body = payload]
       /\ UNCHANGED outsideResend
    \/ StreamChunk(1) /\ UNCHANGED <<outsideResend, chunk_log>>
    \/ StreamAbort(1) /\ UNCHANGED <<outsideResend, chunk_log>>
    \/ /\ FinishUpload(1)
       /\ chunk_log' =
            IF uploads'[1].status = 200
            THEN [chunk_log EXCEPT !.accepted =
                    @ \cup {[offset |-> uploads[1].offset, body |-> uploads[1].body]}]
            ELSE chunk_log
       /\ UNCHANGED outsideResend
    \/ CommitTransferItem /\ OtherRequest /\ UNCHANGED outsideResend
    \/ PauseTransfer /\ OtherRequest /\ UNCHANGED outsideResend
    \/ ResumeTransfer /\ OtherRequest /\ UNCHANGED outsideResend
    \/ FinalizeTransferItem /\ OtherRequest /\ UNCHANGED outsideResend

InitResend == InitInbox /\ manifest.approved /\ ~share_read_only /\ InboxAlone
SpecResend == InitResend /\ [][NextResend]_vars

-----------------------------------------------------------------------------
(* Agent: read tickets *)

coordinator_secret_key == "coordinator-secret"
Secrets == {coordinator_secret_key, "another-secret"}
ShareNames == {"share-a", "share-b"}
ReadPermissions == {"read", "download"}
TicketKinds == {"read_ticket", "internal_agent", "transfer_upload_ticket"}

\* hmac.new(secret, body, sha256).digest(): equal for equal key and body only.
HMAC(secret, body) == <<"hmac-sha256", secret, body>>

\* The payloads a token may carry; exp = None stands for an exp that is no int.
TicketPayloads == [kind : TicketKinds, share_id : ShareNames,
              permissions : SUBSET ReadPermissions, exp : {None} \cup 0..MaxClock]

\* issue_token with a given expiry, for any signer.
issue_token(secret, payload) ==
    [wellformed |-> TRUE, body |-> payload, signature |-> HMAC(secret, payload)]

\* A token whose body was changed after it was signed.
Tampered(secret, payload, share_id) ==
    [wellformed |-> TRUE, body |-> [payload EXCEPT !.share_id = share_id],
     signature |-> HMAC(secret, payload)]

Tickets ==
    {issue_token(k, p) : k \in Secrets, p \in TicketPayloads}
        \cup {Tampered(coordinator_secret_key, p, s) : p \in TicketPayloads, s \in ShareNames}
        \cup {[wellformed |-> FALSE]}

\* decode_token: "ok" with the payload, or the TokenError.
decode_token(secret, token) ==
    IF ~token.wellformed THEN [error |-> "Malformed token"]
    ELSE IF token.signature # HMAC(secret, token.body)
    THEN [error |-> "Invalid token signature"]
    ELSE IF token.body.exp = None THEN [error |-> "Invalid token expiry"]
    ELSE IF token.body.exp < agent_now THEN [error |-> "Token expired"]
    ELSE [error |-> "", payload |-> token.body]

\* verify_read_ticket asking every kind of ticket for the permission.
verify_read_ticket_every_kind(token, share_id, required_permission) ==
    LET claims == decode_token(coordinator_secret_key, token)
    IN  IF claims.error # "" THEN 401
        ELSE IF claims.payload.kind \notin {"read_ticket", "internal_agent"} THEN 401
        ELSE IF claims.payload.share_id # share_id THEN 403
        ELSE IF required_permission \notin claims.payload.permissions THEN 403
        ELSE 200

\* verify_read_ticket: the status of the endpoint's ticket check, 200 if it returns.
verify_read_ticket(token, share_id, required_permission) ==
    LET claims == decode_token(coordinator_secret_key, token)
    IN  IF claims.error # "" THEN 401
        ELSE IF claims.payload.kind \notin {"read_ticket", "internal_agent"} THEN 401
        ELSE IF claims.payload.share_id # share_id THEN 403
        ELSE IF claims.payload.kind = "read_ticket"
                /\ required_permission \notin claims.payload.permissions THEN 403
        ELSE 200

PresentTicket ==
    /\ ticket' \in Tickets
    /\ verdict' = [status |-> 0]
    /\ UNCHANGED agent_now

\* A read endpoint of share share_id is called with the ticket.
ReadEndpoint(share_id, required_permission) ==
    /\ verdict' = [status |-> verify_read_ticket(ticket, share_id, required_permission),
                   share_id |-> share_id, required_permission |-> required_permission,
                   at |-> agent_now]
    /\ UNCHANGED <<ticket, agent_now>>

AgentTick ==
    /\ agent_now < MaxClock
    /\ agent_now' = agent_now + 1
    /\ verdict' = [status |-> 0]
    /\ UNCHANGED ticket

outsideTickets == <<coordVars, stepVars, inboxVars, brokerVars, searchVars, aclVars, historyVars,
        pairingVars>>

NextTickets ==
    \/ PresentTicket /\ UNCHANGED outsideTickets
    \/ (\E s \in ShareNames, p \in ReadPermissions : ReadEndpoint(s, p))
            /\ UNCHANGED outsideTickets
    \/ AgentTick /\ UNCHANGED outsideTickets

InitTickets ==
    /\ agent_now = 0
    /\ ticket \in Tickets
    /\ verdict = [status |-> 0]
    /\ CoordinatorAtRest /\ InboxAtRest /\ BrokerAtRest /\ SearchAtRest /\ AclAtRest

SpecTickets == InitTickets /\ [][NextTickets]_vars

-----------------------------------------------------------------------------
(* Shared: the text of a token *)

\* hashlib.sha256().digest_size, and the length of the JSON of {"a": 1, "exp": e}
\* for a ten-digit e.
DigestLength == 32
BodyLength == 24
TokenBodies == {[a |-> 1], [a |-> 2]}
ExpiresIn == 0..2

\* The number of base64 characters that carry length bytes.
Chars(length) == (4 * length + 2) \div 3

\* The values the bits of the final character that carry no data can take.
SpareValues(length) ==
    IF length % 3 = 0 THEN {0} ELSE IF length % 3 = 1 THEN 0..15 ELSE 0..3

\* _b64encode: the characters of data with the padding stripped.  A text is
\* the data its characters carry, the spare bits of its final character, the
\* characters outside the alphabet it contains and the "=" put after it.
_b64encode(data, length) ==
    [data |-> data, length |-> length, last |-> 0, discarded |-> 0, padding |-> 0]

\* _b64decode: pads to a multiple of four by the length of the text, drops the
\* characters outside the alphabet and the spare bits, and fails only if the
\* padding is then too short.
_b64decode(text) ==
    LET chars == Chars(text.length)
        added == (4 - ((chars + text.discarded + text.padding) % 4)) % 4
        needed == (4 - (chars % 4)) % 4
    IN  [ok |-> added + text.padding >= needed, data |-> text.data]

\* issue_token at the agent's clock: the body with exp, signed, as text.
issue_token_text(secret, payload, expires_in) ==
    LET token_payload == [a |-> payload.a, exp |-> agent_now + Max(1, expires_in)]
    IN  [dot |-> TRUE,
         body_part |-> _b64encode(token_payload, BodyLength),
         signature_part |-> _b64encode(HMAC(secret, token_payload), DigestLength)]

\* The first lines of decode_token: split at the dot and decode both parts.
split_token(token) ==
    IF ~token.dot \/ ~_b64decode(token.body_part).ok
            \/ ~_b64decode(token.signature_part).ok
    THEN [wellformed |-> FALSE]
    ELSE [wellformed |-> TRUE, body |-> _b64decode(token.body_part).data,
          signature |-> _b64decode(token.signature_part).data]

\* The ways a token is altered in transit.
Alterations ==
    [part : {"dot"}, to : {0}]
        \cup [part : {"body byte", "signature byte"}, to : {0}]
        \cup [part : {"last signature character"},
              to : SpareValues(DigestLength) \ {0}]
        \cup [part : {"characters in signature"}, to : 1..4]
        \cup [part : {"padding"}, to : 1..2]

Altered(token, alteration) ==
    CASE alteration.part = "dot" -> [token EXCEPT !.dot = FALSE]
      [] alteration.part = "body byte" ->
            [token EXCEPT !.body_part.data.a = 3 - @]
      [] alteration.part = "signature byte" ->
            [token EXCEPT !.signature_part.data = <<"altered", @>>]
      [] alteration.part = "last signature character" ->
            [token EXCEPT !.signature_part.last = alteration.to]
      [] alteration.part = "characters in signature" ->
            [token EXCEPT !.signature_part.discarded = alteration.to]
      [] alteration.part = "padding" ->
            [token EXCEPT !.signature_part.padding = alteration.to]

\* A token is issued; ticket keeps it with what it was issued from.
IssueToken(secret, payload, expires_in) ==
    /\ ticket' = [token |-> issue_token_text(secret, payload, expires_in),
                  secret |-> secret, payload |-> payload,
                  exp |-> agent_now + Max(1, expires_in), altered |-> FALSE]
    /\ verdict' = [status |-> 0]
    /\ UNCHANGED agent_now

AlterToken(alteration) ==
    /\ ~ticket.altered
    /\ ticket' = [ticket EXCEPT !.token = Altered(@, alteration), !.altered = TRUE]
    /\ verdict' = [status |-> 0]
    /\ UNCHANGED agent_now

\* decode_token(secret, token); status 200 stands for a returned payload and
\* 401 for a TokenError.
DecodeToken(secret) ==
    LET claims == decode_token(secret, split_token(ticket.token))
    IN  /\ verdict' = [status |-> IF claims.error = "" THEN 200 ELSE 401,
                       secret |-> secret, at |-> agent_now, claims |-> claims]
        /\ UNCHANGED <<ticket, agent_now>>

NextTokens ==
    \/ (\E k \in Secrets, p \in TokenBodies, e \in ExpiresIn : IssueToken(k, p, e))
            /\ UNCHANGED outsideTickets
    \/ (\E a \in Alterations : AlterToken(a)) /\ UNCHANGED outsideTickets
    \/ (\E k \in Secrets : DecodeToken(k)) /\ UNCHANGED outsideTickets
    \/ AgentTick /\ UNCHANGED outsideTickets

InitTokens ==
    /\ agent_now = 0
    /\ \E k \in Secrets, p \in TokenBodies, e \in ExpiresIn :
            ticket = [token |-> issue_token_text(k, p, e), secret |-> k,
                      payload |-> p, exp |-> Max(1, e), altered |-> FALSE]
    /\ verdict = [status |-> 0]
    /\ CoordinatorAtRest /\ InboxAtRest /\ BrokerAtRest /\ SearchAtRest /\ AclAtRest

SpecTokens == InitTokens /\ [][NextTokens]_vars

-----------------------------------------------------------------------------
(* Coordinator: the events WebSocket *)

\* load_config: COORDINATOR_EVENTS_WS_TOKEN_TTL unset.
events_ws_token_ttl_seconds == 90
MaxWsClock == 91

\* issue_events_ws_token, and issue_access_token with the same expiry, at the
\* clock of the coordinator process (agent_now stands for its time.time()).
issue_events_ws_token(secret, principal_id) ==
    issue_token(secret, [kind |-> "events_ws", principal_id |-> principal_id,
                         exp |-> agent_now + Max(1, events_ws_token_ttl_seconds)])

OtherWsTokens ==
    {issue_token(coordinator_secret_key,
                 [kind |-> "client_access", principal_id |-> "alice",
                  exp |-> agent_now + Max(1, events_ws_token_ttl_seconds)]),
     issue_token(coordinator_secret_key,
                 [kind |-> "events_ws", principal_id |-> "",
                  exp |-> agent_now + Max(1, events_ws_token_ttl_seconds)]),
     [wellformed |-> FALSE]}

\* GET /events/token, or a client that makes up what it presents.
GetWsToken ==
    /\ ticket' \in {issue_events_ws_token(k, p) : k \in Secrets, p \in Principals}
                        \cup OtherWsTokens
    /\ verdict' = [status |-> 0, accepted |-> 0]
    /\ UNCHANGED agent_now

\* events_ws: the upgrade is closed with 1008 or accepted (101) by
\* broker.connect; accepted counts the upgrades the token was accepted for.
events_ws(token) ==
    LET claims == decode_token(coordinator_secret_key, token)
    IN  IF claims.error # "" THEN 1008
        ELSE IF claims.payload.kind # "events_ws" THEN 1008
        ELSE IF claims.payload.principal_id = "" THEN 1008
        ELSE 101

EventsWs ==
    LET answer == events_ws(ticket)
    IN  /\ verdict' = [status |-> answer,
                       accepted |-> IF answer = 101 THEN Min(verdict.accepted + 1, 2)
                                    ELSE verdict.accepted]
        /\ UNCHANGED <<ticket, agent_now>>

WsTick ==
    /\ agent_now < MaxWsClock
    /\ agent_now' = agent_now + 1
    /\ verdict' = [verdict EXCEPT !.status = 0]
    /\ UNCHANGED ticket

NextEventsWs ==
    \/ GetWsToken /\ UNCHANGED outsideTickets
    \/ EventsWs /\ UNCHANGED outsideTickets
    \/ WsTick /\ UNCHANGED outsideTickets

InitEventsWs ==
    /\ agent_now = 0
    /\ ticket = issue_events_ws_token(coordinator_secret_key, "alice")
    /\ verdict = [status |-> 0, accepted |-> 0]
    /\ CoordinatorAtRest /\ InboxAtRest /\ BrokerAtRest /\ SearchAtRest /\ AclAtRest

SpecEventsWs == InitEventsWs /\ [][NextEventsWs]_vars

\* load_config: the ticket lifetimes, from the environment or the default.
read_ticket_ttl_default == 120
transfer_ticket_ttl_default == 300
TtlOverrides == {None, 60, 1800}

_as_int(raw, default) == IF raw = None THEN default ELSE raw

issue_read_ticket(env, principal_id, share_id, permissions) ==
    issue_token(coordinator_secret_key,
                [kind |-> "read_ticket", principal_id |-> principal_id,
                 share_id |-> share_id, permissions |-> permissions,
                 exp |-> agent_now + Max(1, _as_int(env, read_ticket_ttl_default))])

issue_transfer_ticket(env, principal_id, transfer_id) ==
    issue_token(coordinator_secret_key,
                [kind |-> "transfer_upload_ticket", principal_id |-> principal_id,
                 transfer_id |-> transfer_id, receiver_device_id |-> "device-1",
                 receiver_share_id |-> "share-a",
                 exp |-> agent_now + Max(1, _as_int(env, transfer_ticket_ttl_default))])

\* A ticket is issued by a coordinator started with the override env (None:
\* the variable is unset); ticket keeps it with the time of issue.
IssueReadTicket(env, principal_id, share_id) ==
    /\ ticket' = [token |-> issue_read_ticket(env, principal_id, share_id, ReadPermissions),
                  issued_at |-> agent_now, override |-> env]
    /\ verdict' = [status |-> 0]
    /\ UNCHANGED agent_now

IssueTransferTicket(env, principal_id, transfer_id) ==
    /\ ticket' = [token |-> issue_transfer_ticket(env, principal_id, transfer_id),
                  issued_at |-> agent_now, override |-> env]
    /\ verdict' = [status |-> 0]
    /\ UNCHANGED agent_now

NextTicketTtl ==
    \/ (\E env \in TtlOverrides, p \in Principals, s \in ShareNames :
            IssueReadTicket(env, p, s)) /\ UNCHANGED outsideTickets
    \/ (\E env \in TtlOverrides, p \in Principals, t \in TransferIds :
            IssueTransferTicket(env, p, t)) /\ UNCHANGED outsideTickets
    \/ AgentTick /\ UNCHANGED outsideTickets

InitTicketTtl ==
    /\ agent_now = 0
    /\ ticket = [token |-> issue_read_ticket(None, "alice", "share-a", ReadPermissions),
                 issued_at |-> 0, override |-> None]
    /\ verdict = [status |-> 0]
    /\ CoordinatorAtRest /\ InboxAtRest /\ BrokerAtRest /\ SearchAtRest /\ AclAtRest

SpecTicketTtl == InitTicketTtl /\ [][NextTicketTtl]_vars


-----------------------------------------------------------------------------
(* Agent inbox and coordinator: uploads to a transfer that is cancelled or rejected *)

MaxTicketClock == 450

\* verify_transfer_ticket: the status of the ticket check, 200 if it returns.
verify_transfer_ticket(token, transfer_id, share_id) ==
    LET claims == decode_token(coordinator_secret_key, token)
    IN  IF claims.error # "" THEN 401
        ELSE IF claims.payload.kind # "transfer_upload_ticket" THEN 401
        ELSE IF claims.payload.transfer_id # transfer_id THEN 403
        ELSE IF claims.payload.receiver_share_id # share_id THEN 403
        ELSE 200

\* get_transfer_item_manifest: the status the coordinator answers the agent,
\* whatever the state of the transfer.
get_transfer_item_manifest(t, i) ==
    IF transfer_state[t] = NoRow THEN 404
    ELSE IF i \notin DOMAIN item_state[t] THEN 404
    ELSE 200

\* The requests of the sender's client carry the upload ticket of transfer 1;
\* a request whose ticket is refused does nothing.
TicketAccepted == verify_transfer_ticket(ticket, 1, "share-a") = 200

\* Time passes on the agent: half the lifetime of an upload ticket, or all of it.
TicketTick(seconds) ==
    /\ agent_now + seconds <= MaxTicketClock
    /\ agent_now' = agent_now + seconds
    /\ UNCHANGED <<ticket, verdict>>

NextCancelled ==
    \/ /\ TicketAccepted /\ InFlight = {}
       /\ manifest.approved = (get_transfer_item_manifest(1, 1) = 200)
       /\ \E offset \in 0..MaxSize, payload \in Payloads, is_last \in BOOLEAN :
            BeginUpload(1, offset, manifest.size, payload, is_last, Len(payload))
       /\ UNCHANGED outsideInbox
    \/ StreamChunk(1) /\ UNCHANGED outsideInbox
    \/ FinishUpload(1) /\ UNCHANGED outsideInbox
    \/ TicketAccepted /\ CommitTransferItem /\ UNCHANGED outsideInbox
    \/ TicketAccepted /\ FinalizeTransferItem /\ UNCHANGED outsideInbox
    \/ \E p \in Principals : RejectTransfer(1, p) /\ Quiet
    \/ \E p \in Principals : CancelPendingTransfers(p) /\ Quiet
    \/ (\E seconds \in {transfer_ticket_ttl_default \div 2, transfer_ticket_ttl_default} :
            TicketTick(seconds))
            /\ UNCHANGED outsideTickets

\* Transfer 1 is approved, the coordinator answers for its item, and the
\* sender holds the upload ticket issued at time 0.
InitCancelled ==
    /\ InitApproved /\ InitSteps
    /\ manifest = [approved |-> TRUE, size |-> 1, sha256 |-> UNKNOWN_SHA256]
    /\ share_read_only = FALSE
    /\ share_dir = EmptyShareDir
    /\ inbox_items = <<>>
    /\ part_path = Missing
    /\ inbox_path = Missing
    /\ uploads = [r \in UploadIds |-> Idle]
    /\ inbox_response = NoAnswer
    /\ agent_now = 0
    /\ ticket = issue_transfer_ticket(None, "alice", 1)
    /\ verdict = [status |-> 0]
    /\ BrokerAtRest /\ SearchAtRest /\ AclAtRest

SpecCancelled == InitCancelled /\ [][NextCancelled]_vars

-----------------------------------------------------------------------------
(* Coordinator: EventBroker, the sockets of one principal *)

SocketIds == 1..NumSockets
CallIds == 1..NumPublishes

Without(seq, S) == SelectSeq(seq, LAMBDA x : x \notin S)
Elements(seq) == {seq[i] : i \in 1..Len(seq)}
InsertAt(seq, i, x) == SubSeq(seq, 1, i) \o <<x>> \o SubSeq(seq, i + 1, Len(seq))

\* connect: the socket is accepted and added to the principal's set, whose
\* iteration order is not the order of insertion.
Connect(s) ==
    /\ socket_state[s] = "new"
    /\ socket_state' = [socket_state EXCEPT ![s] = "open"]
    /\ \E i \in 0..Len(connections) : connections' = InsertAt(connections, i, s)
    /\ principal_entry' = TRUE
    /\ UNCHANGED <<calls, outbox, delivered, publish_order>>

\* The client of an open socket goes away.
ClientGone(s) ==
    /\ socket_state[s] = "open"
    /\ socket_state' = [socket_state EXCEPT ![s] = "closed"]
    /\ UNCHANGED <<connections, principal_entry, calls, outbox, delivered, publish_order>>

\* disconnect keeping the principal's entry when its last socket is removed.
Disconnect_keeping_entry(s) ==
    /\ socket_state[s] = "closed"
    /\ s \in Elements(connections)
    /\ connections' = Without(connections, {s})
    /\ UNCHANGED <<principal_entry, socket_state, calls, outbox, delivered, publish_order>>

\* disconnect, called by the websocket endpoint when it sees the client gone:
\* the socket is discarded and an entry left empty is dropped.
Disconnect(s) ==
    /\ socket_state[s] = "closed"
    /\ s \in Elements(connections)
    /\ connections' = Without(connections, {s})
    /\ principal_entry' = (connections' # <<>>)
    /\ UNCHANGED <<socket_state, calls, outbox, delivered, publish_order>>

\* A publish call runs on until it is suspended in a send or returns:
\* send_json on a closed socket raises at once, on an open one the call waits
\* behind the sends already waiting on that socket; after the last socket the
\* stale ones are discarded under the lock.
RECURSIVE RunOn(_, _, _, _)
RunOn(c, call, waiting, sockets) ==
    IF call.sockets = <<>>
    THEN [call |-> [pc |-> "done", event |-> call.event, stale |-> call.stale],
          outbox |-> waiting, connections |-> Without(sockets, call.stale)]
    ELSE IF socket_state[Head(call.sockets)] = "closed"
    THEN RunOn(c, [call EXCEPT !.sockets = Tail(@), !.stale = @ \cup {Head(call.sockets)}],
               waiting, sockets)
    ELSE [call |-> [call EXCEPT !.pc = "waiting"],
          outbox |-> [waiting EXCEPT ![Head(call.sockets)] = Append(@, c)],
          connections |-> sockets]

Resume(c, run) ==
    /\ calls' = [calls EXCEPT ![c] = run.call]
    /\ outbox' = run.outbox
    /\ connections' = run.connections
    /\ principal_entry' =
            IF run.call.pc = "done" /\ run.call.stale # {} /\ connections # <<>>
            THEN connections' # <<>> ELSE principal_entry

\* publish is called: it takes the list of the principal's sockets under the
\* lock and starts to send.
Publish(c) ==
    /\ c = Len(publish_order) + 1
    /\ calls[c] = Idle
    /\ publish_order' = Append(publish_order, c)
    /\ Resume(c, RunOn(c, [pc |-> "sending", event |-> c, sockets |-> connections,
                           stale |-> {}], outbox, connections))
    /\ UNCHANGED <<socket_state, delivered>>

\* The oldest send waiting on the socket completes and its call goes on.
Deliver(s) ==
    /\ outbox[s] # <<>>
    /\ socket_state[s] = "open"
    /\ LET c == Head(outbox[s])
       IN  /\ delivered' = [delivered EXCEPT ![s] = Append(@, calls[c].event)]
           /\ Resume(c, RunOn(c, [calls[c] EXCEPT !.sockets = Tail(@)],
                              [outbox EXCEPT ![s] = Tail(@)], connections))
    /\ UNCHANGED <<socket_state, publish_order>>

\* The oldest send waiting on a closed socket raises: the socket is stale.
SendFails(s) ==
    /\ outbox[s] # <<>>
    /\ socket_state[s] = "closed"
    /\ LET c == Head(outbox[s])
       IN  Resume(c, RunOn(c, [calls[c] EXCEPT !.sockets = Tail(@), !.stale = @ \cup {s}],
                           [outbox EXCEPT ![s] = Tail(@)], connections))
    /\ UNCHANGED <<socket_state, delivered, publish_order>>

outsideBroker == <<coordVars, stepVars, inboxVars, ticketVars, searchVars, aclVars, historyVars,
        pairingVars>>

NextBroker ==
    \/ (\E s \in SocketIds : Connect(s)) /\ UNCHANGED outsideBroker
    \/ (\E s \in SocketIds : ClientGone(s)) /\ UNCHANGED outsideBroker
    \/ (\E s \in SocketIds : Disconnect(s)) /\ UNCHANGED outsideBroker
    \/ (\E c \in CallIds : Publish(c)) /\ UNCHANGED outsideBroker
    \/ (\E s \in SocketIds : Deliver(s)) /\ UNCHANGED outsideBroker
    \/ (\E s \in SocketIds : SendFails(s)) /\ UNCHANGED outsideBroker

InitBroker ==
    BrokerAtRest /\ CoordinatorAtRest /\ InboxAtRest /\ TicketsAtRest /\ SearchAtRest
        /\ AclAtRest

SpecBroker == InitBroker /\ [][NextBroker]_vars

-----------------------------------------------------------------------------
(* Coordinator: access control *)

PERMISSIONS == {"read", "download", "request_send", "accept_incoming", "manage_share"}

\* The vocabulary in the order sorted() gives it.
SortedPermissions ==
    <<"accept_incoming", "download", "manage_share", "read", "request_send">>

\* AgentDevice.owner_principal_id of the device a share belongs to.
DeviceOwner(share) == IF share % 2 = 1 THEN "bob" ELSE "alice"

\* The permission sets callers ask to grant; "admin" is not in the vocabulary.
GrantInputs == {{}, {"read"}, {"read", "admin"}, {"download", "read"}}

normalize_permissions(values) == {value \in values : value \in PERMISSIONS}

\* The canonical CSV, as the sequence of its tokens.
encode_permissions(values) ==
    SelectSeq(SortedPermissions, LAMBDA token : token \in normalize_permissions(values))

\* decode_permissions of a stored CSV.
decode_permissions(raw) ==
    IF raw = <<>> THEN {} ELSE normalize_permissions(Elements(raw))

\* decode_permissions(grant.permissions_raw if grant else None)
GrantedPermissions(grant) ==
    IF grant.exists THEN decode_permissions(grant.permissions_raw) ELSE {}

\* owner_principal_id as the callers leave it, and an owner_map without entries.
NoOwnerGiven == "None"
EmptyOwnerMap == [share \in {} |-> NoOwnerGiven]

get_permissions_for_share(principal_id, share, owner_principal_id) ==
    LET owner == IF owner_principal_id = NoOwnerGiven THEN DeviceOwner(share)
                 ELSE owner_principal_id
    IN  IF owner = principal_id THEN OWNER_PERMISSIONS
        ELSE GrantedPermissions(acl_grants[principal_id][share])

get_permissions_for_shares(principal_id, shares, owner_map) ==
    [share \in shares |->
        IF share \in DOMAIN owner_map /\ owner_map[share] = principal_id
        THEN OWNER_PERMISSIONS
        ELSE GrantedPermissions(acl_grants[principal_id][share])]

\* The owner_map list_shares and search_files build from the joined rows.
OwnerMapOf(shares) == [share \in shares |-> DeviceOwner(share)]

\* grant_permissions: the row is updated, or added.
GrantPermissions(principal_id, share, permissions) ==
    /\ acl_grants' = [acl_grants EXCEPT ![principal_id][share] =
            [exists |-> TRUE, permissions_raw |-> encode_permissions(permissions)]]
    /\ acl_response' = [op |-> "grant_permissions"]
    /\ UNCHANGED device

\* ensure_default_grants_for_share: a default row for every other principal
\* that has none.
EnsureDefaultGrantsForShare(share) ==
    /\ acl_grants' =
            [principal_id \in Principals |->
                IF principal_id = DeviceOwner(share) \/ acl_grants[principal_id][share].exists
                THEN acl_grants[principal_id]
                ELSE [acl_grants[principal_id] EXCEPT ![share] =
                        [exists |-> TRUE,
                         permissions_raw |-> encode_permissions(DEFAULT_EXTERNAL_PERMISSIONS)]]]
    /\ acl_response' = [op |-> "ensure_default_grants_for_share"]
    /\ UNCHANGED device

\* A call of get_permissions_for_share.
PermissionsForShare(principal_id, share) ==
    /\ acl_response' =
            [op |-> "get_permissions_for_share", principal_id |-> principal_id,
             permissions |-> [s \in {share} |->
                                get_permissions_for_share(principal_id, share, NoOwnerGiven)]]
    /\ UNCHANGED <<acl_grants, device>>

\* A call of get_permissions_for_shares, with or without an owner_map.
PermissionsForShares(principal_id, shares, owner_map) ==
    /\ acl_response' =
            [op |-> "get_permissions_for_shares", principal_id |-> principal_id,
             permissions |-> get_permissions_for_shares(principal_id, shares, owner_map)]
    /\ UNCHANGED <<acl_grants, device>>

outsideAcl == <<coordVars, stepVars, inboxVars, ticketVars, brokerVars, searchVars,
                historyVars,
        pairingVars>>

NextAcl ==
    \/ (\E p \in Principals, s \in 1..NumShares, permissions \in GrantInputs :
            GrantPermissions(p, s, permissions)) /\ UNCHANGED outsideAcl
    \/ (\E s \in 1..NumShares : EnsureDefaultGrantsForShare(s)) /\ UNCHANGED outsideAcl
    \/ (\E p \in Principals, s \in 1..NumShares : PermissionsForShare(p, s))
            /\ UNCHANGED outsideAcl
    \/ (\E p \in Principals, shares \in SUBSET (1..NumShares) :
            \E owner_map \in {EmptyOwnerMap, OwnerMapOf(shares)} :
                PermissionsForShares(p, shares, owner_map)) /\ UNCHANGED outsideAcl

InitAcl ==
    AclAtRest /\ CoordinatorAtRest /\ InboxAtRest /\ TicketsAtRest /\ BrokerAtRest
        /\ SearchAtRest

SpecAcl == InitAcl /\ [][NextAcl]_vars

-----------------------------------------------------------------------------
(* Coordinator: search_files *)

ShareIds == 1..NumShares
Take(seq, n) == SubSeq(seq, 1, Min(n, Len(seq)))

\* What an agent answers for a share: count items, the first of them a directory.
AgentItems(share, count) ==
    [k \in 1..count |-> [share_id |-> share, path |-> k, is_dir |-> k = 1]]

\* The permissions a caller may hold on a share.
CallerPermissions == {{}, {"read"}, {"read", "download"}}

\* What an agent may answer: an error, or count items of its matches entries
\* with a truncated flag.
Replies ==
    {[ok |-> o, count |-> c, truncated |-> t, matches |-> c] :
        o \in BOOLEAN, c \in 0..MaxAgentItems, t \in BOOLEAN}

\* search_entries stopping only once the limit has been passed.
search_entries_past_limit(matches, max_results) ==
    LET capped_limit == Max(1, Min(max_results, 1000))
    IN  [ok |-> TRUE, count |-> Min(matches, capped_limit),
         truncated |-> matches > capped_limit, matches |-> matches]

\* search_entries of the agent over a share with matches matching entries: it
\* stops, truncated, as soon as the list holds capped_limit items.
search_entries(matches, max_results) ==
    LET capped_limit == Max(1, Min(max_results, 1000))
    IN  [ok |-> TRUE, count |-> Min(matches, capped_limit),
         truncated |-> matches >= capped_limit, matches |-> matches]

\* The agent's answer to search_share: an error status raises in the client.
AgentFailure == [ok |-> FALSE, count |-> 0, truncated |-> FALSE, matches |-> 0]
AgentReplies(max_results) ==
    {AgentFailure} \cup {search_entries(m, max_results) : m \in 0..MaxAgentItems}

\* An item with the URLs the coordinator adds for the client, or without them.
WithUrls(item, stream_url, download_url) ==
    [share_id |-> item.share_id, path |-> item.path, is_dir |-> item.is_dir,
     stream_url |-> stream_url, download_url |-> download_url]

\* _prepare_items_for_client giving every file both URLs.
prepare_items_with_both_urls(items, permissions, include_urls) ==
    [k \in DOMAIN items |->
        IF include_urls /\ ~items[k].is_dir
        THEN WithUrls(items[k], TRUE, TRUE)
        ELSE WithUrls(items[k], FALSE, FALSE)]

\* _prepare_items_for_client: the URLs of the files, unless compact.
prepare_items_for_client(items, permissions, include_urls) ==
    [k \in DOMAIN items |->
        IF include_urls /\ ~items[k].is_dir
        THEN WithUrls(items[k], TRUE, "download" \in permissions)
        ELSE WithUrls(items[k], FALSE, FALSE)]

\* _run_search passing on all the items the agent returned.
run_search_unsliced(share, reply, max_results_per_share, permissions, compact) ==
    [items |-> [k \in 1..reply.count |->
                    LET item == AgentItems(share, reply.count)[k]
                    IN  IF ~compact /\ ~item.is_dir
                        THEN WithUrls(item, TRUE, "download" \in permissions)
                        ELSE WithUrls(item, FALSE, FALSE)],
     truncated |-> reply.truncated]

\* _run_search: the payload of one share.
run_search(share, reply, max_results_per_share, permissions, compact) ==
    LET items == Take(AgentItems(share, reply.count), max_results_per_share)
    IN  [items |-> [k \in DOMAIN items |->
                        IF ~compact /\ ~items[k].is_dir
                        THEN WithUrls(items[k], TRUE, "download" \in permissions)
                        ELSE WithUrls(items[k], FALSE, FALSE)],
         truncated |-> reply.truncated]

\* results.append(item) until max_results_total is reached.
RECURSIVE Collect(_, _, _)
Collect(results, items, max_results_total) ==
    IF items = <<>> THEN [results |-> results, hit |-> FALSE]
    ELSE LET appended == Append(results, Head(items))
         IN  IF Len(appended) >= max_results_total
             THEN [results |-> appended, hit |-> TRUE]
             ELSE Collect(appended, Tail(items), max_results_total)

\* The sort key (not is_dir, path).
KeyLess(a, b) == (a.is_dir /\ ~b.is_dir) \/ (a.is_dir = b.is_dir /\ a.path < b.path)

RECURSIVE InsertSorted(_, _)
InsertSorted(sorted, x) ==
    IF sorted = <<>> THEN <<x>>
    ELSE IF KeyLess(x, sorted[Len(sorted)])
    THEN Append(InsertSorted(SubSeq(sorted, 1, Len(sorted) - 1), x), sorted[Len(sorted)])
    ELSE Append(sorted, x)

\* results.sort(key=...), a stable sort.
RECURSIVE Sort(_)
Sort(seq) ==
    IF seq = <<>> THEN <<>>
    ELSE InsertSorted(Sort(SubSeq(seq, 1, Len(seq) - 1)), seq[Len(seq)])

\* The response of the federated branch without its errors.
Respond_without_errors(q, results, truncated, errors) ==
    /\ search_response' =
            [federated |-> TRUE, items |-> Take(Sort(results), q.max_results_total),
             truncated |-> truncated, errors |-> {},
             max_results_total |-> q.max_results_total,
             max_results_per_share |-> q.max_results_per_share,
             oversupplied |-> q.oversupplied,
             permissions_by_share |-> q.permissions_by_share, compact |-> q.compact,
             status |-> 200,
             merged |-> q.merged, dropped |-> q.dropped,
             timed_out |-> q.timed_out,
             unfinished |-> IF q.timed_out THEN q.pending ELSE {}]
    /\ search' = Idle

\* The response of the federated branch.
Respond(q, results, truncated, errors) ==
    /\ search_response' =
            [federated |-> TRUE, items |-> Take(Sort(results), q.max_results_total),
             truncated |-> truncated, errors |-> errors,
             max_results_total |-> q.max_results_total,
             max_results_per_share |-> q.max_results_per_share,
             oversupplied |-> q.oversupplied,
             permissions_by_share |-> q.permissions_by_share, compact |-> q.compact,
             status |-> 200,
             merged |-> q.merged, dropped |-> q.dropped,
             timed_out |-> q.timed_out,
             unfinished |-> IF q.timed_out THEN q.pending ELSE {}]
    /\ search' = Idle

\* search_files with device_id and share_id, past the checks of the device:
\* require_permission, then the one agent's answer is passed on.
SearchSingleShare(share, reply, max_results_per_share, max_results_total, permissions, compact) ==
    /\ search = Idle
    /\ search_response' =
            IF "read" \notin permissions
            THEN [federated |-> FALSE, items |-> <<>>, status |-> 403]
            ELSE IF ~reply.ok
            THEN [federated |-> FALSE, items |-> <<>>, status |-> 502]
            ELSE [federated |-> FALSE,
                  items |-> prepare_items_for_client(AgentItems(share, reply.count),
                                                     permissions, ~compact),
                  truncated |-> reply.truncated, errors |-> {},
                  max_results_total |-> max_results_total,
                  max_results_per_share |-> max_results_per_share,
                  oversupplied |-> {},
                  permissions_by_share |-> [s \in {share} |-> permissions],
                  compact |-> compact, status |-> 200]
    /\ UNCHANGED search

\* search_files over the visible shares the caller may read: one future per
\* candidate share.
StartSearch(permissions_by_share, max_shares, max_results_per_share, max_results_total, compact) ==
    /\ search = Idle
    /\ LET readable == {s \in DOMAIN permissions_by_share :
                            "read" \in permissions_by_share[s]}
           candidate_shares ==
               {s \in readable : Cardinality({x \in readable : x < s}) < max_shares}
           q == [pc |-> "as_completed", pending |-> candidate_shares, results |-> <<>>,
                 permissions_by_share |-> permissions_by_share, compact |-> compact,
                 truncated |-> FALSE, errors |-> {}, oversupplied |-> {},
                 merged |-> {}, dropped |-> FALSE, timed_out |-> FALSE,
                 max_results_per_share |-> max_results_per_share,
                 max_results_total |-> max_results_total]
       IN  IF candidate_shares = {}
           THEN Respond(q, <<>>, FALSE, {})
           ELSE search' = q /\ search_response' = NoSearchResponse

\* The next future of as_completed, with what its agent answered.
FutureCompletes(share, reply) ==
    /\ search # Idle
    /\ share \in search.pending
    /\ LET pending == search.pending \ {share}
           payload == run_search(share, reply, search.max_results_per_share,
                                 search.permissions_by_share[share], search.compact)
           collected == Collect(search.results, payload.items, search.max_results_total)
           truncated == search.truncated \/ payload.truncated \/ collected.hit
           oversupplied == IF reply.count > search.max_results_per_share
                           THEN search.oversupplied \cup {share} ELSE search.oversupplied
           q == [search EXCEPT
                    !.oversupplied = oversupplied,
                    !.pending = pending,
                    !.merged = @ \cup {[share_id |-> share, matches |-> reply.matches,
                                        count |-> Len(payload.items)]},
                    !.dropped = collected.hit
                                /\ (Len(search.results) + Len(payload.items)
                                        > search.max_results_total
                                    \/ pending # {})]
       IN  IF ~reply.ok
           THEN IF pending = {}
                THEN Respond(search, search.results, search.truncated,
                             search.errors \cup {share})
                ELSE /\ search' = [search EXCEPT !.pending = pending,
                                                 !.errors = @ \cup {share}]
                     /\ UNCHANGED search_response
           ELSE IF (truncated /\ Len(collected.results) >= search.max_results_total)
                    \/ pending = {}
                THEN Respond(q, collected.results, truncated, search.errors)
                ELSE /\ search' = [q EXCEPT !.results = collected.results,
                                            !.truncated = truncated]
                     /\ UNCHANGED search_response

\* A timeout that gives up what has been merged so far.
SearchTimeout_without_results ==
    /\ search # Idle
    /\ Respond([search EXCEPT !.timed_out = TRUE], <<>>, TRUE, search.errors)

\* The time budget is used up before every future has completed.
SearchTimeout ==
    /\ search # Idle
    /\ Respond([search EXCEPT !.timed_out = TRUE], search.results, TRUE, search.errors)

outsideSearch == <<coordVars, stepVars, inboxVars, ticketVars, brokerVars, aclVars, historyVars,
        pairingVars>>

NextSearch ==
    \/ (\E s \in ShareIds, reply \in Replies, m \in 1..MaxPerShare, n \in 1..MaxTotal :
            \E permissions \in CallerPermissions, compact \in BOOLEAN :
                SearchSingleShare(s, reply, m, n, permissions, compact))
            /\ UNCHANGED outsideSearch
    \/ (\E permissions_by_share \in [ShareIds -> CallerPermissions], k \in 1..NumShares,
           m \in 1..MaxPerShare, n \in 1..MaxTotal, compact \in BOOLEAN :
            StartSearch(permissions_by_share, k, m, n, compact)) /\ UNCHANGED outsideSearch
    \/ (\E s \in ShareIds, reply \in Replies : FutureCompletes(s, reply))
            /\ UNCHANGED outsideSearch
    \/ SearchTimeout /\ UNCHANGED outsideSearch

InitSearch ==
    SearchAtRest /\ CoordinatorAtRest /\ InboxAtRest /\ TicketsAtRest /\ BrokerAtRest
        /\ AclAtRest

SpecSearch == InitSearch /\ [][NextSearch]_vars

\* The federated search over agents that answer with search_entries.
NextFederated ==
    \/ (\E permissions_by_share \in [ShareIds -> CallerPermissions], k \in 1..NumShares,
           m \in 1..MaxPerShare, n \in 1..MaxTotal, compact \in BOOLEAN :
            StartSearch(permissions_by_share, k, m, n, compact)) /\ UNCHANGED outsideSearch
    \/ (\E s \in ShareIds :
            \E reply \in AgentReplies(IF search = Idle THEN 1
                                      ELSE search.max_results_per_share) :
                FutureCompletes(s, reply)) /\ UNCHANGED outsideSearch
    \/ SearchTimeout /\ UNCHANGED outsideSearch

SpecFederated == InitSearch /\ [][NextFederated]_vars


\* The federated search with per-share and total limits large enough for a
\* share to be cut in the middle of its items after another was merged whole.
MergePerShare == 3
MergeTotal == 4

NextMerge ==
    \/ (\E permissions_by_share \in [ShareIds -> CallerPermissions], k \in 1..NumShares,
           m \in 1..MergePerShare, n \in 1..MergeTotal, compact \in BOOLEAN :
            StartSearch(permissions_by_share, k, m, n, compact)) /\ UNCHANGED outsideSearch
    \/ (\E s \in ShareIds, reply \in Replies : FutureCompletes(s, reply))
            /\ UNCHANGED outsideSearch
    \/ SearchTimeout /\ UNCHANGED outsideSearch

SpecMerge == InitSearch /\ [][NextMerge]_vars

-----------------------------------------------------------------------------
(* Coordinator: list_files and search_files over the stored grants *)

\* The checks of the share's device that come before require_permission:
\* 404 for a hidden device of another principal, 503 for one that is offline.
DeviceStatus(principal_id, share) ==
    IF ~device[share].visibility /\ DeviceOwner(share) # principal_id THEN 404
    ELSE IF ~device[share].online THEN 503
    ELSE 200

\* The shares search_files keeps as visible_shares.
VisibleShares(principal_id) ==
    {s \in ShareIds : DeviceStatus(principal_id, s) = 200}

\* The shares whose device is hidden or goes offline while browsing.
ChangingDevices == {1}

\* The grants given while browsing.
BrowseGrants == {{"read"}, {"download", "read"}}

\* The agent's answer to list_share: a directory listing, or an error.
ListReplies == {AgentFailure} \cup
    {[ok |-> TRUE, count |-> c, truncated |-> FALSE, matches |-> c] : c \in {0, 2}}

\* list_files
ListFiles(principal_id, share, compact, reply) ==
    /\ LET permissions == get_permissions_for_share(principal_id, share, NoOwnerGiven)
           answer == [op |-> "list_files", principal_id |-> principal_id,
                      share_id |-> share, compact |-> compact, agent_ok |-> reply.ok,
                      items |-> <<>>, permissions |-> {}, status |-> 0]
       IN  acl_response' =
            IF DeviceStatus(principal_id, share) # 200
            THEN [answer EXCEPT !.status = DeviceStatus(principal_id, share)]
            ELSE IF "read" \notin permissions
            THEN [answer EXCEPT !.status = 403]
            ELSE IF ~reply.ok
            THEN [answer EXCEPT !.status = 502]
            ELSE [answer EXCEPT
                    !.status = 200,
                    !.permissions = permissions,
                    !.items = prepare_items_for_client(AgentItems(share, reply.count),
                                                       permissions, ~compact)]
    /\ UNCHANGED <<acl_grants, device>>

\* search_files of one share, for a caller with the stored grants.
SearchFilesOfShare(principal_id, share, compact, reply) ==
    IF DeviceStatus(principal_id, share) # 200
    THEN /\ search = Idle
         /\ search_response' = [federated |-> FALSE, items |-> <<>>,
                                status |-> DeviceStatus(principal_id, share)]
         /\ UNCHANGED search
    ELSE SearchSingleShare(share, reply, MaxPerShare, MaxTotal,
                           get_permissions_for_share(principal_id, share, NoOwnerGiven),
                           compact)

\* search_files over every share, for a caller with the stored grants.
SearchFilesFederated(principal_id, compact) ==
    StartSearch(get_permissions_for_shares(principal_id, VisibleShares(principal_id),
                                           OwnerMapOf(VisibleShares(principal_id))),
                NumShares, MaxPerShare, MaxTotal, compact)

\* A device is hidden or shown by its owner, or goes offline or comes back.
SetDevice(share, visibility, online) ==
    /\ device' = [device EXCEPT ![share] = [visibility |-> visibility, online |-> online]]
    /\ acl_response' = [op |-> "device"]
    /\ UNCHANGED acl_grants

outsideBrowse == <<coordVars, stepVars, inboxVars, ticketVars, brokerVars, historyVars,
        pairingVars>>

\* The requests of a browsing client, of which the last answer is kept.
OnlyGrants == UNCHANGED <<acl_grants, device>> /\ acl_response' = [op |-> "none"]
NoSearch == search = Idle /\ search' = search /\ search_response' = NoSearchResponse

NextBrowse ==
    \/ (\E p \in Principals, s \in ShareIds, permissions \in BrowseGrants :
            DeviceOwner(s) # p /\ GrantPermissions(p, s, permissions))
            /\ UNCHANGED <<outsideBrowse, searchVars>>
    \/ (\E s \in ChangingDevices, visibility, online \in BOOLEAN :
            SetDevice(s, visibility, online))
            /\ UNCHANGED <<outsideBrowse, searchVars>>
    \/ (\E p \in Principals, s \in ShareIds, compact \in BOOLEAN, reply \in ListReplies :
            ListFiles(p, s, compact, reply)) /\ NoSearch /\ UNCHANGED outsideBrowse
    \/ (\E p \in Principals, s \in ShareIds, compact \in BOOLEAN :
            \E reply \in AgentReplies(MaxPerShare) :
                SearchFilesOfShare(p, s, compact, reply))
            /\ OnlyGrants /\ UNCHANGED outsideBrowse
    \/ (\E p \in Principals, compact \in BOOLEAN : SearchFilesFederated(p, compact))
            /\ OnlyGrants /\ UNCHANGED outsideBrowse
    \/ (\E s \in ShareIds :
            \E reply \in AgentReplies(MaxPerShare) : FutureCompletes(s, reply))
            /\ OnlyGrants /\ UNCHANGED outsideBrowse
    \/ SearchTimeout /\ OnlyGrants /\ UNCHANGED outsideBrowse

SpecBrowse == InitAcl /\ [][NextBrowse]_vars

-----------------------------------------------------------------------------
(* Claims *)

\* C1: once a transfer's state is terminal (completed, rejected, expired, failed,
\* cancelled), no later coordinator operation changes that state.
C1_TerminalStateIsFinal ==
    [][\A t \in TransferIds :
          transfer_state[t] \in TERMINAL_TRANSFER_STATES
              => transfer_state'[t] = transfer_state[t]]_vars

\* An update_item_state request has been answered for a transfer that was
\* cancelled before it.
C1_Witness ==
    /\ response.op = "update_item_state"
    /\ response.status = 200
    /\ transfer_state[response.transfer_id] = "cancelled"

ItemMultiset(t, s) == Cardinality({i \in DOMAIN item_state[t] : item_state[t][i] = s})
ItemStateValues == UNION {{item_state[t][i] : i \in DOMAIN item_state[t]} : t \in TransferIds}
SameMultiset(t1, t2) ==
    /\ Len(item_state[t1]) = Len(item_state[t2])
    /\ \A s \in ItemStateValues : ItemMultiset(t1, s) = ItemMultiset(t2, s)

\* C2: after update_item_state on a non-terminal transfer the transfer's state is
\* a function of the multiset of its item states: two transfers whose items have
\* the same multiset of states after the update have the same transfer state.
\* Stated for the multisets to which the recomputation assigns a state (every
\* item finalized or completed, or some item receiving, staged or committed).
C2_StateIsFunctionOfItems ==
    \A t1, t2 \in TransferIds :
        /\ after_update[t1] /\ after_update[t2]
        /\ SameMultiset(t1, t2)
        /\ \/ CountIn(item_state[t1], {"finalized", "completed"}) = Len(item_state[t1])
           \/ CountIn(item_state[t1], {"receiving", "staged", "committed"}) > 0
        => transfer_state[t1] = transfer_state[t2]

\* C5: after five consecutive wrong open_passcode requests the window is locked
\* (the failure counters persist from one request to the next).
C5_LockedAfterFiveFailures ==
    \A t \in TransferIds :
        wrong_streak[t] >= PASSCODE_ATTEMPTS
            => /\ passcode_window[t].exists
               /\ passcode_window[t].locked_until # None
               /\ passcode_window[t].failure_count >= PASSCODE_ATTEMPTS

CountLog(log, op, t) ==
    Cardinality({k \in DOMAIN log : log[k].op = op /\ log[k].transfer_id = t})

HMACVerifies(token) ==
    token.wellformed /\ token.signature = HMAC(coordinator_secret_key, token.body)

Concurrent(r, q) == q \in uploads[r].peers \/ r \in uploads[q].peers

\* C7: of two chunk requests for the same item with the same offset whose
\* handling overlaps, at most one is accepted, and when one is accepted and the
\* other answered 409 the part file has offset + the accepted chunk's bytes.
C7_OneOfTwoAccepted ==
    \A r, q \in UploadIds :
        (r # q /\ uploads[r].pc = "done" /\ uploads[q].pc = "done"
            /\ Concurrent(r, q) /\ uploads[r].offset = uploads[q].offset) =>
            /\ ~(uploads[r].status = 200 /\ uploads[q].status = 200)
            /\ (uploads[r].status = 200 /\ uploads[q].status = 409) =>
                    FileSize(part_path) = uploads[r].offset + uploads[r].written

\* C8: for approve, open_passcode and update_item_state the database commit of the
\* state change precedes the publication of its event, and no event is published
\* for a mutation that was not committed: at every moment each handler has
\* published at most as often as it has committed, and the transfer state an event
\* carries is the committed one.
C8_CommitBeforePublish ==
    /\ \A op \in {"approve", "open_passcode", "update_item_state"}, t \in TransferIds :
            CountLog(published, op, t) <= CountLog(commit_log, op, t)
    /\ \A k \in DOMAIN published :
            published[k].op \in {"approve", "open_passcode", "update_item_state"}
                => published[k].db_state = published[k].payload_state

\* open_passcode and update_item_state have both committed and published.
C8_Witness ==
    /\ \E k \in DOMAIN published :
            published[k].op = "open_passcode" /\ published[k].events # {}
    /\ \E k \in DOMAIN published :
            published[k].op = "update_item_state" /\ published[k].events # {}

Position(seq, x) == CHOOSE i \in 1..Len(seq) : seq[i] = x

\* C9: every socket receives the events of any two publish calls in the order
\* in which publish was called, also when the calls interleave at their sends.
C9_DeliveredInPublishOrder ==
    \A s \in SocketIds :
        \A i, j \in 1..Len(delivered[s]) :
            i < j => Position(publish_order, delivered[s][i])
                        < Position(publish_order, delivered[s][j])

CountOfShare(items, share) ==
    Cardinality({i \in 1..Len(items) : items[i].share_id = share})

\* C10: a federated search response has at most max_results_total items and at
\* most max_results_per_share items of any one share, whatever the agents return.
C10_ResultCaps ==
    search_response.federated =>
        /\ Len(search_response.items) <= search_response.max_results_total
        /\ \A s \in ShareIds :
                CountOfShare(search_response.items, s)
                    <= search_response.max_results_per_share

\* A federated response that is full, with an agent that returned more items
\* than the per-share cap.
C10_Witness ==
    /\ search_response.federated
    /\ Len(search_response.items) = search_response.max_results_total
    /\ \E s \in search_response.oversupplied :
            CountOfShare(search_response.items, s) = search_response.max_results_per_share

\* A merged share had at least / more than max_results_per_share matching entries.
ShareReachedCap ==
    \E m \in search_response.merged : m.matches >= search_response.max_results_per_share
ShareCutAtCap ==
    \E m \in search_response.merged : m.matches > search_response.max_results_per_share

\* C11, as stated: a federated response is truncated exactly if results were cut
\* (a merged share had more matching entries than max_results_per_share, or the
\* merge left items out at max_results_total) or the deadline expired with share
\* tasks still pending.
C11_TruncatedIffCut ==
    search_response.federated =>
        (search_response.truncated <=>
            (ShareCutAtCap \/ search_response.dropped \/ search_response.timed_out))

\* C11, amended: a federated response is truncated exactly if a cap was reached
\* (a merged share had at least max_results_per_share matching entries, or the
\* merged results number max_results_total), whether or not anything was left
\* out, or the deadline expired with share tasks still pending.
C11_TruncatedIffReached ==
    search_response.federated =>
        (search_response.truncated <=>
            (\/ ShareReachedCap
             \/ Len(search_response.items) >= search_response.max_results_total
             \/ search_response.timed_out))

\* A truncated federated response, within the deadline and below the total cap,
\* one of whose shares had more matching entries than the per-share cap.
C11_Witness ==
    /\ search_response.federated
    /\ search_response.truncated
    /\ ~search_response.timed_out
    /\ Len(search_response.items) < search_response.max_results_total
    /\ ShareCutAtCap

\* C16: when the deadline of a federated search fires with share tasks still
\* pending, the response holds the items of every share that completed before
\* it, is truncated, and has no errors entry for a share that had not completed.
C16_TimeoutKeepsCompleted ==
    (search_response.federated /\ search_response.timed_out) =>
        /\ search_response.truncated
        /\ \A m \in search_response.merged :
                CountOfShare(search_response.items, m.share_id) = m.count
        /\ \A s \in ShareIds :
                CountOfShare(search_response.items, s) > 0
                    => \E m \in search_response.merged : m.share_id = s
        /\ search_response.errors \cap search_response.unfinished = {}

\* The deadline fired after one share had delivered items and another had not
\* answered.
C16_Witness ==
    /\ search_response.federated
    /\ search_response.timed_out
    /\ search_response.unfinished # {}
    /\ \E m \in search_response.merged : m.count > 0

UrlsAsPermitted(items, permissions_of, compact) ==
    \A k \in DOMAIN items :
        LET item == items[k]
        IN  /\ item.stream_url <=> (~compact /\ ~item.is_dir)
            /\ item.download_url <=>
                    (~compact /\ ~item.is_dir
                        /\ "download" \in permissions_of[item.share_id])

\* C20: list answers 403 to a principal that neither owns the share nor has a
\* grant on it, and succeeds with a grant containing read (the device being
\* visible and online, the agent answering); in a list or search response the
\* files carry stream_url, and download_url exactly if the caller has download,
\* directories carry neither, and in compact mode no item carries a URL.
C20_ListAndUrls ==
    /\ acl_response.op = "list_files" =>
            LET p == acl_response.principal_id
                s == acl_response.share_id
                reachable == device[s].visibility /\ device[s].online
            IN  /\ (reachable /\ DeviceOwner(s) # p /\ ~acl_grants[p][s].exists)
                        => acl_response.status = 403
                /\ (reachable /\ acl_grants[p][s].exists /\ acl_response.agent_ok
                        /\ "read" \in Elements(acl_grants[p][s].permissions_raw))
                        => acl_response.status = 200
                /\ acl_response.status = 200 =>
                        UrlsAsPermitted(acl_response.items,
                                        [x \in {s} |-> acl_response.permissions],
                                        acl_response.compact)
    /\ search_response.status = 200 =>
            UrlsAsPermitted(search_response.items, search_response.permissions_by_share,
                            search_response.compact)

\* A list answered to a principal with a grant of read alone: files with
\* stream_url and without download_url.
C20_Witness ==
    /\ acl_response.op = "list_files"
    /\ acl_response.status = 200
    /\ DeviceOwner(acl_response.share_id) # acl_response.principal_id
    /\ "download" \notin acl_response.permissions
    /\ ~acl_response.compact
    /\ \E k \in DOMAIN acl_response.items :
            acl_response.items[k].stream_url /\ ~acl_response.items[k].download_url

\* C13: a transfer that is created, approved, opened by the sender and whose
\* items are all uploaded, committed and finalized, every notification reaching
\* the coordinator, is eventually completed.
C13_DeliveryCompletes ==
    \A t \in TransferIds :
        (transfer_state[t] # NoRow) ~> (transfer_state[t] = "completed")

\* The last chunk request has been answered and repeated an accepted chunk.
ResendAnswered == uploads[1].pc = "done" /\ chunk_log.resend

\* C14, as stated: a chunk request that repeats the offset and the bytes of an
\* accepted chunk is answered 409 and leaves the part file's length as it was.
C14_ResendConflicts ==
    ResendAnswered => (uploads[1].status = 409 /\ uploads[1].post_len = uploads[1].pre_len)

\* C14, amended: a chunk request that repeats the offset and the bytes of an
\* accepted chunk of at least one byte is answered 409 and leaves the part
\* file's length as it was; the repetition of an accepted empty chunk is accepted
\* again, and leaves the length as it was too.
C14_ResendOfBytesConflicts ==
    ResendAnswered =>
        /\ uploads[1].post_len = uploads[1].pre_len
        /\ chunk_log.body # <<>> => uploads[1].status = 409
        /\ uploads[1].status \in {200, 409}

\* A chunk of bytes was accepted and sent again while the item was receiving.
C14_Witness ==
    /\ ResendAnswered
    /\ chunk_log.body # <<>>
    /\ uploads[1].status = 409
    /\ HasRecord /\ Record.state = "receiving"
    /\ uploads[1].pre_len = uploads[1].offset + Len(chunk_log.body)

\* The part file commit found had the expected length and another digest than
\* the expected, known one.
ChecksumMismatch(file) ==
    /\ HasRecord
    /\ file.exists
    /\ Len(file.data) = Record.expected_size
    /\ Record.expected_sha256 # UNKNOWN_SHA256
    /\ SHA256(file.data) # Record.expected_sha256

\* C15: commit of a staged item whose part file has the expected length and a
\* digest other than the expected one is answered 409 and leaves the item staged
\* and the part file in place; finalize is answered 409 for an item no commit
\* has succeeded for.
C15_ChecksumMismatchIsRefused ==
    /\ (inbox_response.op = "commit" /\ inbox_response.state_before = "staged"
            /\ ChecksumMismatch(inbox_response.part_before))
        => /\ inbox_response.status = 409
           /\ inbox_response.state_after = "staged"
           /\ part_path = inbox_response.part_before
           /\ ~inbox_path.exists
    /\ (inbox_response.op = "finalize" /\ inbox_response.state_before # "no_row"
            /\ ~inbox_path.exists)
        => /\ inbox_response.status = 409
           /\ inbox_response.state_after = inbox_response.state_before

\* A staged item of two bytes with a wrong digest whose commit was refused.
C15_Witness ==
    /\ inbox_response.op = "commit"
    /\ inbox_response.state_before = "staged"
    /\ ChecksumMismatch(inbox_response.part_before)
    /\ Len(part_path.data) = MaxSize
    /\ inbox_response.status = 409

\* C17 as stated: decode_token(secret2, issue_token(secret1, body, ttl)) at
\* time now returns body plus exp if and only if now < exp and secret1 =
\* secret2; in every other case, and for a token with any part altered, it
\* fails with TokenError.
C17_DecodeIffIssuedAndFresh ==
    verdict.status # 0 =>
        /\ verdict.status \in {200, 401}
        /\ verdict.status = 200 <=>
                /\ ~ticket.altered
                /\ verdict.at < ticket.exp
                /\ verdict.secret = ticket.secret
        /\ verdict.status = 200 =>
                verdict.claims.payload = [a |-> ticket.payload.a, exp |-> ticket.exp]

RowsUnchanged(u) ==
    /\ transfer_state'[u] = transfer_state[u]
    /\ item_state'[u] = item_state[u]
    /\ passcode_window'[u] = passcode_window[u]

Twins(t, u) ==
    /\ t # u
    /\ transfer_state[t] # NoRow /\ transfer_state[u] # NoRow
    /\ sender_principal_id[t] = sender_principal_id[u]

\* A request addressed to transfer t has been answered.
RequestOn(t) ==
    /\ response'.op \in {"approve", "reject", "open_passcode"}
    /\ response'.transfer_id = t

\* A cancel request has cancelled transfer t.
Cancels(t) ==
    /\ response'.op = "cancel_pending"
    /\ transfer_state[t] # "cancelled"
    /\ transfer_state'[t] = "cancelled"

C21_WsTokenAcceptedOnce == verdict.accepted <= 1

\* C22: a create-transfer request body is accepted for every number of items
\* from 1 to 200 inclusive.
C22_UpTo200ItemsAccepted ==
    (response.op = "post_transfers" /\ response.item_count \in 1..200)
        => response.body_accepted

\* C23: with no TTL environment override, a transfer_upload_ticket and a
\* read_ticket are each issued with exp = issue time + 1800 s.
C23_DefaultTicketTtlIs1800 ==
    ticket.override = None => ticket.token.body.exp = ticket.issued_at + 1800

\* The edges the claim allows out of the two waiting states and into
\* in_progress and completed.
AllowedEdge(from, to) ==
    /\ from = "pending_receiver_approval" =>
            to \in {"approved_pending_sender_passcode", "rejected", "expired", "cancelled"}
    /\ from = "approved_pending_sender_passcode" => to \in {"passcode_open", "cancelled"}
    /\ to \in {"in_progress", "completed"} => from \in {"passcode_open", "in_progress"}

\* C24: every change of a transfer's state made by approve, reject,
\* open_passcode, update_item_state or cancel_pending follows an edge of the
\* state machine; in particular update_item_state never moves a transfer out
\* of pending_receiver_approval or approved_pending_sender_passcode.
C24_StateChangesFollowEdges ==
    [][\A t \in TransferIds :
            (transfer_state[t] # NoRow /\ transfer_state'[t] # transfer_state[t])
                => AllowedEdge(transfer_state[t], transfer_state'[t])]_vars

\* What the claim says cancel_pending by principal leaves behind.
TerminalItemStates == {"finalized", "rejected", "failed", "cancelled"}

PartyTo(t, principal) ==
    transfer_state[t] # NoRow /\ principal \in {sender_principal_id[t], ReceiverOwner}

ToCancel(principal) ==
    {t \in TransferIds : PartyTo(t, principal)
                            /\ transfer_state[t] \notin TERMINAL_TRANSFER_STATES}

CancelledAsClaimed(principal) ==
    /\ \A t \in ToCancel(principal) :
            /\ transfer_state'[t] = "cancelled"
            /\ \A i \in DOMAIN item_state[t] :
                    item_state[t][i] \notin TerminalItemStates
                        => item_state'[t][i] = "cancelled"
            /\ \A p \in {sender_principal_id[t], ReceiverOwner} :
                    \E e \in response'.events :
                        /\ e.type = "transfer_cancelled"
                        /\ e.transfer_id = t
                        /\ e.principal = p
    /\ \A t \in TransferIds \ ToCancel(principal) :
            /\ transfer_state'[t] = transfer_state[t]
            /\ item_state'[t] = item_state[t]
    /\ \A e \in response'.events : e.transfer_id \in ToCancel(principal)

\* C25: cancel_pending by principal P sets to cancelled every non-terminal
\* transfer of which P is the sender or the receiver-device owner, sets every
\* non-terminal item of those transfers to cancelled, leaves terminal
\* transfers, their items, and transfers P is not a party to unchanged, and
\* publishes transfer_cancelled for each cancelled transfer to both its sender
\* and its receiver owner.
C25_CancelPending ==
    [][\A p \in Principals :
            CancelPendingTransfers(p) => CancelledAsClaimed(p)]_vars

\* A cancel_pending has cancelled a transfer with an item that was under way
\* and published it, next to a transfer that was already terminal.
C25_Witness ==
    /\ response.op = "cancel_pending"
    /\ response.events # {}
    /\ \E t, u \in TransferIds :
            /\ transfer_state[t] = "cancelled"
            /\ \E e \in response.events : e.transfer_id = t
            /\ \E i, k \in DOMAIN item_state[t] :
                    item_state[t][i] = "cancelled" /\ item_state[t][k] = "finalized"
            /\ transfer_state[u] \in {"rejected", "completed"}
            /\ \A e \in response.events : e.transfer_id # u

\* C26: a transfer that is still in pending_receiver_approval when 24 hours
\* have elapsed since its creation (now > expires_at) moves to expired on the
\* next time it is read or operated on; an approve arriving after expires_at
\* does not move it to approved_pending_sender_passcode.
C26_ExpiresWhenTouched ==
    [][\A t \in TransferIds :
            (/\ now' = now
             /\ response'.op \in {"get_transfer", "approve"}
             /\ response'.transfer_id = t
             /\ response'.status # 403
             /\ transfer_state[t] = "pending_receiver_approval"
             /\ now > expires_at[t])
                => transfer_state'[t] = "expired"]_vars

ItemStatesOfSpec == {"pending", "receiving", "staged", "committed", "finalized",
                     "paused", "rejected", "failed", "cancelled"}

\* C27: in every reachable coordinator state, the state of every TransferItem
\* is one of {pending, receiving, staged, committed, finalized, paused,
\* rejected, failed, cancelled}, whatever state values update_item_state
\* requests carry.
C27_ItemStatesAreKnown ==
    \A t \in TransferIds : \A i \in DOMAIN item_state[t] :
        item_state[t][i] \in ItemStatesOfSpec

\* C28: update_item_state is idempotent against duplicate agent notifications:
\* applying the same (transfer, item, state) notification twice in a row leaves
\* every item state and the transfer state exactly as applying it once.
C28_DuplicateNotificationChangesNothing ==
    [][\A t \in TransferIds, i \in 1..NumItems, s \in {"receiving", "finalized", "paused"} :
            (/\ last_notification = [transfer_id |-> t, item |-> i, state |-> s,
                                     applied |-> TRUE]
             /\ Notify(t, i, s))
                => /\ transfer_state' = transfer_state
                   /\ item_state' = item_state]_vars

\* The item is paused and the client has the answer of a chunk request: since
\* pause_transfer the client has sent that request and nothing else.
ChunkAnsweredWhilePaused ==
    /\ HasRecord
    /\ inbox_items[ItemKey].state = "paused"
    /\ uploads[1].pc = "done"

PauseAndResumeMoveItems ==
    /\ inbox_response.op = "pause" =>
            inbox_response.state_after =
                IF inbox_response.state_before \in {"pending", "receiving", "staged"}
                THEN "paused" ELSE inbox_response.state_before
    /\ inbox_response.op = "resume" =>
            inbox_response.state_after =
                IF inbox_response.state_before = "paused"
                THEN "receiving" ELSE inbox_response.state_before

\* A chunk request for the paused item (the requests whose answer is kept in
\* uploads, not in inbox_response) is answered at once and leaves the item's
\* row and its part file alone.
PausedItemUntouched ==
    [][(HasRecord /\ inbox_items[ItemKey].state = "paused" /\ inbox_response'.op = "none")
            => /\ uploads'[1].pc = "done"
               /\ inbox_items' = inbox_items
               /\ part_path' = part_path]_vars

Keys(items) == [k \in DOMAIN items |-> [is_dir |-> items[k].is_dir, path |-> items[k].path]]

\* The items of the shares a response merged, share after share.
RECURSIVE MergedItems(_, _)
MergedItems(merged, shares) ==
    IF shares = {} THEN <<>>
    ELSE LET s == CHOOSE x \in shares : \A y \in shares : x <= y
             count == (CHOOSE m \in merged : m.share_id = s).count
         IN  AgentItems(s, count) \o MergedItems(merged, shares \ {s})

CompletedShares(merged) == {m.share_id : m \in merged}

\* C30: the items of a federated search response are the first
\* max_results_total items of the sorted merge (directories first, then by
\* path) of the items of all shares that completed, whatever the order the
\* shares completed in; items are compared by their sort keys.
C30_FirstOfSortedMerge ==
    (search_response.status = 200 /\ search_response.federated) =>
        Keys(search_response.items)
            = Keys(Take(Sort(MergedItems(search_response.merged,
                                         CompletedShares(search_response.merged))),
                        search_response.max_results_total))

\* C31: pairing confirm follows the lockout discipline of the passcode
\* window: the failed confirm that brings the number of failed confirms of
\* the session to a multiple of 5 locks it for min(300, 2^min(failures, 8))
\* seconds, failures counting all failed confirms of the session, and a
\* confirm during the lock is answered 429 and changes no counter.
C31_PairingLockout ==
    /\ (pairing_response.status = 401 /\ pairing_response.failures % 5 = 0) =>
            pairing_response.locked_for = Min(300, Pow2(Min(pairing_response.failures, 8)))
    /\ pairing_response.status = 429 => ~pairing_response.touched

\* What a step of the merge loop leaves: the errors and the results, in the
\* request still in flight or in its response.
ErrorsAfter == IF search' = Idle THEN search_response'.errors ELSE search'.errors
ResultsKept ==
    IF search' = Idle
    THEN /\ search_response'.status = 200
         /\ search_response'.items = Take(Sort(search.results), search.max_results_total)
    ELSE search'.results = search.results

\* The sum of the item counts of the merged shares.
RECURSIVE MergedCount(_)
MergedCount(merged) ==
    IF merged = {} THEN 0
    ELSE LET m == CHOOSE x \in merged : TRUE IN m.count + MergedCount(merged \ {m})

\* C32: in a federated search the failure of one share's agent call adds
\* exactly one errors entry, for that share, and no items; the request is
\* still answered 200 with the items of the shares that succeeded.
C32_ShareFailureIsCollected ==
    /\ [][\A s \in ShareIds, reply \in Replies :
            (FutureCompletes(s, reply) /\ ~reply.ok) =>
                /\ s \notin search.errors
                /\ ErrorsAfter = search.errors \cup {s}
                /\ ResultsKept]_vars
    /\ []((search_response.federated /\ search_response.status = 200) =>
            /\ \A k \in DOMAIN search_response.items :
                    search_response.items[k].share_id \notin search_response.errors
            /\ Len(search_response.items)
                = Min(search_response.max_results_total,
                      MergedCount(search_response.merged)))

\* A search was answered with the items of one share and the error of the other.
C32_Witness ==
    /\ search_response.federated /\ search_response.status = 200
    /\ search_response.errors # {}
    /\ search_response.items # <<>>
    /\ ~search_response.timed_out

\* The publish calls that have returned, and whether none is in flight.
Returned(c) == calls[c].pc = "done"
Quiescent == \A c \in CallIds : calls[c].pc \in {"idle", "done"}

\* C33: when publish returns, every socket whose send raised is no longer
\* subscribed and every socket that received the event and whose client has
\* not gone away meanwhile is still subscribed; in every quiescent state of
\* the broker the principal has no entry with an empty socket set.
C33_PublishRemovesOnlyStale ==
    /\ [][\A c \in CallIds :
            (~Returned(c) /\ Returned(c)') =>
                /\ \A s \in calls'[c].stale : s \notin Elements(connections')
                /\ \A s \in SocketIds :
                        (c \in Elements(delivered'[s]) /\ socket_state'[s] = "open")
                            => s \in Elements(connections')]_vars
    /\ [](Quiescent => (principal_entry => connections # <<>>))

\* A publish has returned after one send raised and another succeeded, and
\* the socket that received the event is the only one still subscribed.
C33_Witness ==
    \E c \in CallIds, s \in SocketIds :
        /\ Returned(c) /\ calls[c].stale # {}
        /\ c \in Elements(delivered[s]) /\ socket_state[s] = "open"
        /\ connections = <<s>> /\ principal_entry
        /\ Quiescent

\* C34: with update_item_state interleaved with cancel_pending or reject on
\* the same transfer, a committed cancelled or rejected state is never
\* overwritten: the transfer stays in that state.
C34_TerminalSurvivesRace ==
    [][\A t \in TransferIds :
            transfer_state[t] \in {"cancelled", "rejected"}
                => transfer_state'[t] = transfer_state[t]]_vars

\* C35: a chunk request that is rejected leaves the part file as long as it
\* was before the request, also when it carried x-chunk-last=1 and was
\* rejected because offset + bytes written differs from expected_size.
C35_RejectedChunkLeavesLength ==
    (uploads[1].pc = "done" /\ uploads[1].status # 200) =>
        uploads[1].post_len = uploads[1].pre_len

\* C36: finalize of an item that is already finalized, with the same
\* arguments, leaves the file at the path the first finalize gave it, creates
\* no second file and leaves the record's inbox_path unchanged.
C36_FinalizeIsIdempotent ==
    [][(FinalizeTransferItem /\ HasRecord /\ inbox_items[ItemKey].state = "finalized")
            => share_dir' = share_dir]_vars

\* C37: an item becomes committed only from staged: a commit request for an
\* item that is pending, receiving or paused is refused and leaves the item's
\* state and its part file unchanged, even if the part file has expected_size
\* bytes.
C37_CommitOnlyFromStaged ==
    (inbox_response.op = "commit"
        /\ inbox_response.state_before \in {"pending", "receiving", "paused"}) =>
            /\ inbox_response.status # 200
            /\ inbox_response.state_after = inbox_response.state_before
            /\ part_path = inbox_response.part_before

C39_OneBootstrap ==
    /\ principal_rows <= 1
    /\ Cardinality({r \in 1..NumStarts : starts[r].pc = "done" /\ starts[r].bootstrap}) <= 1

\* C40: once a transfer is cancelled or rejected at the coordinator, the agent
\* accepts no further chunk, commit or finalize request for its items: with no
\* request still being served, no row of the inbox and no file of the transfer
\* changes any more, even while the upload ticket has not expired.
C40_NothingAfterTerminal ==
    [][transfer_state[1] \in {"cancelled", "rejected"} /\ InFlight = {} =>
            UNCHANGED <<inbox_items, part_path, inbox_path, share_dir>>]_vars

====
